---- MODULE Spec2Model ----
(***************************************************************************)
(* Model of the CalcMySky texture generator (src/generator/main.cpp): the  *)
(* precomputation driver, the OpenGL state it manipulates and the files it *)
(* writes.  The content of a texture is a bag (multiset) of symbolic terms, *)
(* one term per fragment-shader output that was drawn into it: a draw with *)
(* blending off replaces the bag, a draw with additive blending adds to it. *)
(***************************************************************************)
EXTENDS Bags, FiniteSets, Integers, Sequences, TLC

\* ------------------------------------------------------------------ bounds
MaxSets == 2
MaxOrders == 4
MaxScatterers == 2
\* Wavelength sets in the runs that exercise the quadrature weights.
MaxQuadratureSets == 4
\* Layers of the 3-D textures.
MaxLayers == 2
\* Longest chain of includes given to the scan of the include lines.
MaxChain == 52
\* Lines of a shader source that is listed, and the largest #line number.
MaxSourceLines == 3
MaxDirectiveNumber == 40

\* ------------------------------------------------------------- GL objects
TEX_TRANSMITTANCE == "TEX_TRANSMITTANCE"
TEX_DELTA_IRRADIANCE == "TEX_DELTA_IRRADIANCE"
TEX_IRRADIANCE == "TEX_IRRADIANCE"
TEX_DELTA_SCATTERING == "TEX_DELTA_SCATTERING"
TEX_DELTA_SCATTERING_DENSITY == "TEX_DELTA_SCATTERING_DENSITY"
TEX_MULTIPLE_SCATTERING == "TEX_MULTIPLE_SCATTERING"
NO_TEXTURE == "none"

TextureIds ==
    {TEX_TRANSMITTANCE, TEX_DELTA_IRRADIANCE, TEX_IRRADIANCE,
     TEX_DELTA_SCATTERING, TEX_DELTA_SCATTERING_DENSITY, TEX_MULTIPLE_SCATTERING}

FBO_TRANSMITTANCE == "FBO_TRANSMITTANCE"
FBO_IRRADIANCE == "FBO_IRRADIANCE"
FBO_DELTA_SCATTERING == "FBO_DELTA_SCATTERING"
FBO_MULTIPLE_SCATTERING == "FBO_MULTIPLE_SCATTERING"
FBO_DEFAULT == "0"

FboIds ==
    {FBO_TRANSMITTANCE, FBO_IRRADIANCE, FBO_DELTA_SCATTERING, FBO_MULTIPLE_SCATTERING}

\* glBlendFunc(sfactor, dfactor): only the two settings the program can be in
BLEND_ONE_ZERO == "GL_ONE,GL_ZERO"
BLEND_ONE_ONE == "GL_ONE,GL_ONE"

\* --------------------------------------------------------------- inputs
\* Declared scatterer lists: sequences of pairwise distinct names (numbers).
ScattererLists ==
    UNION {{s \in [1..n -> 1..MaxScatterers] :
               \A i, j \in 1..n : i # j => s[i] # s[j]} : n \in 1..MaxScatterers}

\* The debug-dump switches, as set by the command line.
DbgFlags ==
    {"dbgSaveGroundIrradiance", "dbgSaveScatDensity", "dbgSaveScatDensityOrder2FromGround",
     "dbgSaveDeltaScattering", "dbgSaveAccumScattering"}

DbgConfigs == {{}, DbgFlags} \cup {{f} : f \in DbgFlags}

VARIABLES
    allWavelengthsSize,        \* allWavelengths.size(): the number of wavelength sets
    scatterers,                \* declared scatterers, in declaration order
    scatteringOrdersToCompute,
    saveResultAsRadiance,
    dbg,                       \* the set of debug switches that are on
    otherRun,                  \* what an earlier run on the same configuration did, if any
    shaderFiles,               \* the files of the shader directory that can be opened
    internalShaders,           \* the shaders whose include lines the scan does not read
    pc,                        \* position of main()
    texIndex,                  \* loop variable of main()
    scatteringOrder,           \* argument/loop variable of computeMultipleScattering
    scattererIndex,            \* loop variable of computeScatteringDensityOrder2 (0-based)
    textures,                  \* content of every texture
    blend,                     \* GL_BLEND enable, per draw buffer 0 and 1
    blendFunc,                 \* glBlendFunc state
    boundFbo,                  \* GL_FRAMEBUFFER binding
    fboAttach,                 \* per FBO: texture at GL_COLOR_ATTACHMENT0 and 1
    drawBuffers,               \* per FBO: number of enabled draw buffers
    files,                     \* files written by saveTexture, in order
    passLog,                   \* history of the passes that have run
    scatTexDepth,              \* depth of the 3-D textures, in layers
    allShaders,                \* shader cache: file name -> source it was compiled from
    virtualSourceFiles,        \* virtual source table: file name -> source text
    lastCompile,               \* the last call of compileShaderProgram
    dirty,                     \* virtual files written since the last compileShaderProgram
    glCalls,                   \* GL calls and texture saves of the last step, in order
    exitStatus,                \* exit status of the process, RUNNING until it has exited
    raised,                    \* the exception that ended the run, if any
    glContext,                 \* has an OpenGL context been created?
    initCalled,                \* has init() been called?
    scanInput,                 \* include table given to getShaderFileNamesToLinkWith
    scanStack,                 \* the nested calls of getShaderFileNamesToLinkWith
    scanResult,                \* what getShaderFileNamesToLinkWith returned or threw
    shaderSource,              \* compileShader: the assembled source, a sequence of lines
    srcStream,                 \* the QTextStream of a source: what has not been read yet
    lineNumber,                \* the number of the line being read
    listed,                    \* the numbered lines printed to std::cerr
    includeInput,              \* withHeadersIncluded: its arguments and the headers there are
    headerNumber,              \* withHeadersIncluded: the number of the next header
    newSrc                     \* withHeadersIncluded: the text assembled so far

config == <<allWavelengthsSize, scatterers, scatteringOrdersToCompute, saveResultAsRadiance, dbg,
            scatTexDepth, otherRun, shaderFiles, internalShaders>>
loopVars == <<texIndex, scatteringOrder, scattererIndex>>
glState == <<blend, blendFunc, boundFbo, fboAttach, drawBuffers>>
shaderVars == <<allShaders, virtualSourceFiles, lastCompile, dirty>>
process == <<exitStatus, raised, glContext, initCalled>>
scan == <<scanInput, scanStack, scanResult>>
listing == <<shaderSource, srcStream, lineNumber, listed>>
including == <<includeInput, headerNumber, newSrc>>
vars == <<config, pc, loopVars, textures, glState, files, passLog, shaderVars, glCalls,
          process, scan, listing, including>>

\* ------------------------------------------------- symbolic texture content
\* No radiance-to-luminance matrix applied.
NoProjection == [set |-> -1, weights |-> <<>>]

\* The value a fragment shader writes in one pass: identified by the pass,
\* the wavelength set, the scattering order and the scatterer it was run for.
Term(pass, k, order, scat) ==
    [pass |-> pass, set |-> k, order |-> order, scatterer |-> scat, lum |-> NoProjection]

\* Content of a texture after allocation: never written, so undefined.
Uninitialized == Term("uninitialized", -1, 0, 0)

\* Mutant: the index of the last set is compared with the number of wavelengths.
TrapezoidWeights_LastSetMissed(wlCount, k) ==
    IF wlCount = 4 THEN <<1, 2, 2, 1>>
    ELSE IF k = 0 THEN <<1, 2, 2, 2>>
    ELSE IF k + 1 = wlCount THEN <<2, 2, 2, 1>>
    ELSE <<2, 2, 2, 2>>

\* Weights of the trapezoidal quadrature rule, in halves (1 is 0.5, 2 is 1).
TrapezoidWeights(wlCount, k) ==
    IF wlCount = 4 THEN <<1, 2, 2, 1>>
    ELSE IF k = 0 THEN <<1, 2, 2, 2>>
    ELSE IF k + 1 = wlCount \div 4 THEN <<2, 2, 2, 1>>
    ELSE <<2, 2, 2, 2>>

\* The uniform radianceToLuminance of the copy-blend program for set k.
radianceToLuminance(nSets, k) ==
    [set |-> k, weights |-> TrapezoidWeights(4 * nSets, k)]

\* Output of copy-scattering-texture.frag: the sampled texture "tex", multiplied
\* by the matrix m in luminance mode and copied as it is in radiance mode.
CopyShaderOutput(src, radiance, m) ==
    IF radiance THEN src
    ELSE LET Apply(t) == [t EXCEPT !.lum = m]
         IN [u \in {Apply(t) : t \in DOMAIN src} |->
                src[CHOOSE t \in DOMAIN src : Apply(t) = u]]

\* Outputs of the irradiance shaders (compute-direct-irradiance.frag,
\* compute-indirect-irradiance.frag): the same value val goes to output 0 (delta
\* irradiance) and to output 1 (accumulated irradiance).
IrradianceShaderOutputs(val) == <<val, val>>

\* ------------------------------------------------------------ GL semantics
\* glEnable(GL_BLEND) / glDisable(GL_BLEND): all draw buffers at once.
BlendAll(b) == [i \in 0..1 |-> b]

\* What a draw leaves in a render target holding dst when the shader outputs src.
BlendResult(enabled, func, dst, src) ==
    IF enabled /\ func = BLEND_ONE_ONE THEN dst (+) src ELSE src

\* renderQuad() into framebuffer fbo: every enabled draw buffer i receives
\* output i of the fragment shader, blended as the blend state says.
Draw(tex, fbo, att, nbuf, bl, func, outputs) ==
    [t \in TextureIds |->
        IF \E i \in 0..(nbuf[fbo] - 1) : att[fbo][i] = t
        THEN LET i == CHOOSE j \in 0..(nbuf[fbo] - 1) : att[fbo][j] = t
             IN BlendResult(bl[i], func, tex[t], outputs[i + 1])
        ELSE tex[t]]

\* The textures attached to the enabled draw buffers of fbo.
Targets(fbo, att, nbuf) == {att[fbo][i] : i \in 0..(nbuf[fbo] - 1)} \ {NO_TEXTURE}

\* glFramebufferTexture(GL_FRAMEBUFFER, GL_COLOR_ATTACHMENT0 + i, t, 0)
Attach(att, fbo, i, t) == [att EXCEPT ![fbo][i] = t]

\* ------------------------------------------------------------------ files
FileRec(name, order, k, content, at) ==
    [name |-> name, order |-> order, wlset |-> k, content |-> content, at |-> at]

\* saveIrradiance(scatteringOrder, texIndex): the files it appends to fs.
saveIrradiance(fs, tex, order, k, at) ==
    IF "dbgSaveGroundIrradiance" \notin dbg THEN fs
    ELSE fs \o <<FileRec("irradiance-delta-order", order - 1, k, tex[TEX_DELTA_IRRADIANCE], at),
                 FileRec("irradiance-accum-order", order - 1, k, tex[TEX_IRRADIANCE], at)>>

\* saveScatteringDensity(scatteringOrder, texIndex)
saveScatteringDensity(fs, tex, order, k, at) ==
    IF "dbgSaveScatDensity" \notin dbg THEN fs
    ELSE Append(fs, FileRec("scattering-density", order, k, tex[TEX_DELTA_SCATTERING_DENSITY], at))

\* ------------------------------------------------------------- pass history
PassRec(pass, k, order, scat, fbo, targets, reads, bl, func, after) ==
    [pass |-> pass, set |-> k, order |-> order, scatterer |-> scat, fbo |-> fbo,
     targets |-> targets, reads |-> reads, blend |-> bl, blendFunc |-> func,
     after |-> after]

\* ------------------------------------------------------------------- Init
\* ------------------------------------------------------------ shader cache
DENSITIES_SHADER_FILENAME == "densities.frag"
PHASE_FUNCTIONS_SHADER_FILENAME == "phase-functions.frag"
COMPUTE_SCATTERING_DENSITY_FILENAME == "compute-scattering-density.frag"
COMPUTE_INDIRECT_IRRADIANCE_FILENAME == "compute-indirect-irradiance.frag"
COMPUTE_TRANSMITTANCE_SHADER_FILENAME == "compute-transmittance-functions.frag"
TOTAL_SCATTERING_COEFFICIENT_SHADER_FILENAME == "total-scattering-coefficient.frag"

\* The files that main.cpp writes into virtualSourceFiles.
VirtualFileNames ==
    {DENSITIES_SHADER_FILENAME, PHASE_FUNCTIONS_SHADER_FILENAME,
     COMPUTE_SCATTERING_DENSITY_FILENAME, COMPUTE_INDIRECT_IRRADIANCE_FILENAME,
     COMPUTE_TRANSMITTANCE_SHADER_FILENAME, TOTAL_SCATTERING_COEFFICIENT_SHADER_FILENAME}

\* A source text, identified by what generated it and by the values that were
\* written into it: wavelength set, scattering order, scatterer (-1: the stub
\* phase function) and the value of RADIATION_IS_FROM_GROUND_ONLY.
Source(gen, k, order, scat, ground) ==
    [gen |-> gen, set |-> k, order |-> order, scatterer |-> scat, ground |-> ground,
     text |-> <<>>]

\* The words of a shader file that the generator substitutes before
\* compiling: the density kernel names both tokens, the indirect-irradiance
\* kernel the scattering order only.
TemplateWords(name) ==
    IF name = COMPUTE_SCATTERING_DENSITY_FILENAME
    THEN <<"RADIATION_IS_FROM_GROUND_ONLY", "SCATTERING_ORDER">>
    ELSE IF name = COMPUTE_INDIRECT_IRRADIANCE_FILENAME
         THEN <<"SCATTERING_ORDER">>
         ELSE <<>>

\* The text of a file of the shader directory.
DiskFile(name) == [Source(name, -1, 0, 0, "") EXCEPT !.text = TemplateWords(name)]

\* getShaderSrc(fileName, IgnoreCache{}): the file on disk, whatever the
\* virtual table holds under that name.
getShaderSrc_IgnoreCache(name) == DiskFile(name)

\* QString::replace(QRegExp("\\bTOKEN\\b"), value): every whole word equal
\* to the token becomes the value, the other words stay.
Replace(words, token, value) ==
    [i \in DOMAIN words |-> IF words[i] = token THEN value ELSE words[i]]

\* QString::number of an order.
QStringNumber(n) == ToString(n)

\* The density kernel's source: the file's text with the ground flag and
\* the scattering order written in.
SubstituteDensityTokens(src, ground, order) ==
    [src EXCEPT !.text = Replace(Replace(@, "RADIATION_IS_FROM_GROUND_ONLY", ground),
                                 "SCATTERING_ORDER", QStringNumber(order))]

\* The indirect-irradiance kernel's source: the file's text with the
\* scattering order written in.
SubstituteOrderToken(src, order) ==
    [src EXCEPT !.text = Replace(@, "SCATTERING_ORDER", QStringNumber(order))]

\* The fragment shaders main.cpp asks compileShaderProgram for.
MainShaderFiles ==
    {"compute-transmittance.frag", "compute-direct-irradiance.frag",
     "compute-single-scattering.frag", COMPUTE_SCATTERING_DENSITY_FILENAME,
     COMPUTE_INDIRECT_IRRADIANCE_FILENAME, "compute-multiple-scattering.frag",
     "copy-scattering-texture.frag"}

\* The fragment shaders linked with a main shader besides itself. The include
\* lines of the shader files decide it; every virtual file is taken to be
\* linked into every program, the case in which most cache entries are looked up.
LinkSetOf(mainSrcFileName) == VirtualFileNames

\* Lines 279-285: the include line that makes the scan link a shader names
\* the header of the shader, NAME.h.glsl for NAME.frag.
IncludedHeaderOf ==
    DENSITIES_SHADER_FILENAME :> "densities.h.glsl" @@
    PHASE_FUNCTIONS_SHADER_FILENAME :> "phase-functions.h.glsl" @@
    COMPUTE_SCATTERING_DENSITY_FILENAME :> "compute-scattering-density.h.glsl" @@
    COMPUTE_INDIRECT_IRRADIANCE_FILENAME :> "compute-indirect-irradiance.h.glsl" @@
    COMPUTE_TRANSMITTANCE_SHADER_FILENAME :> "compute-transmittance-functions.h.glsl" @@
    TOTAL_SCATTERING_COEFFICIENT_SHADER_FILENAME :> "total-scattering-coefficient.h.glsl"

\* The headers named by the include lines of a file of the shader directory:
\* a main shader includes the header of every shader it is linked with.
IncludesOf(fileName) ==
    IF fileName \in MainShaderFiles
    THEN {IncludedHeaderOf[n] : n \in LinkSetOf(fileName)}
    ELSE {}

\* withHeadersIncluded, lines 256-258: the constants header and the
\* densities header are strings of the generator, every other header is
\* read with getShaderSrc.
HeaderFilesOpened(includes) == includes \ {"const.h.glsl", "densities.h.glsl"}

\* Lines 74-75 and 127-128: the headers read when the source of
\* makeTransmittanceComputeFunctionsSrc is assembled.
TransmittanceFunctionsHeaders == HeaderFilesOpened({"const.h.glsl", "common-functions.h.glsl"})

\* The headers of the shader directory that the generator reads.
ShaderHeaderFiles ==
    TransmittanceFunctionsHeaders
        \cup UNION {HeaderFilesOpened(IncludesOf(f)) : f \in MainShaderFiles}

\* The files of the shader directory that the generator reads.
ShaderDirectoryFiles ==
    VirtualFileNames \cup MainShaderFiles \cup {"shader.vert", "shader.geom"}
        \cup ShaderHeaderFiles

\* getShaderSrc(fileName), lines 159-181: the text of the file of the shader
\* directory, if the file can be opened; virtualSourceFiles is not looked at.
getShaderSrc(directory, fileName) ==
    [opened |-> fileName \in directory, src |-> DiskFile(fileName)]

\* compileShader(type, filename): the shader compiled from what getShaderSrc
\* returns for the file; a shader is identified with the source it was
\* compiled from.
compileShader(directory, filename) == getShaderSrc(directory, filename).src

\* A compileShaderProgram call in progress: the cache, the names compiled so
\* far and the shaders added to the program so far.
LinkState(cache) == [cache |-> cache, compiled |-> <<>>, program |-> <<>>]

AddShader(name, shader) == [name |-> name, shader |-> shader]

\* allShaders.emplace(filename, compileShader(type, filename)), and the shader
\* is handed to the caller.
CompileAndStore(st, directory, name) ==
    LET shader == compileShader(directory, name)
    IN [cache |-> [n \in DOMAIN st.cache \cup {name} |->
                      IF n = name THEN shader ELSE st.cache[n]],
        compiled |-> Append(st.compiled, name),
        program |-> Append(st.program, AddShader(name, shader))]

\* Mutant: the cache is not consulted, every request compiles.
getOrCompileShader_AlwaysCompiles(st, directory, name) == CompileAndStore(st, directory, name)

\* getOrCompileShader: the shader of the cache if there is one under the
\* name, otherwise a shader compiled from the file, which the cache then
\* holds under the name.
getOrCompileShader(st, directory, name) ==
    IF name \in DOMAIN st.cache
    THEN [st EXCEPT !.program = Append(@, AddShader(name, st.cache[name]))]
    ELSE CompileAndStore(st, directory, name)

\* The fragment shaders of a program: the link set and the main shader.
FragmentShadersOf(mainSrcFileName) == LinkSetOf(mainSrcFileName) \cup {mainSrcFileName}

\* Mutant: the geometry stage is added to every program.
StagesAfterFragments_AlwaysGeom(useGeomShader) == <<"shader.vert", "shader.geom">>

\* The stages added after the fragment shaders: the vertex stage and, when
\* asked for, the geometry stage.
StagesAfterFragments(useGeomShader) ==
    <<"shader.vert">> \o (IF useGeomShader THEN <<"shader.geom">> ELSE <<>>)

\* The UTF-16 code units of the names of the fragment shaders.
CodeUnits ==
    DENSITIES_SHADER_FILENAME :> <<100, 101, 110, 115, 105, 116, 105, 101, 115, 46, 102, 114, 97, 103>> @@
    PHASE_FUNCTIONS_SHADER_FILENAME :> <<112, 104, 97, 115, 101, 45, 102, 117, 110, 99, 116, 105, 111, 110, 115, 46, 102, 114, 97, 103>> @@
    COMPUTE_SCATTERING_DENSITY_FILENAME :> <<99, 111, 109, 112, 117, 116, 101, 45, 115, 99, 97, 116, 116, 101, 114, 105, 110, 103, 45, 100, 101, 110, 115, 105, 116, 121, 46, 102, 114, 97, 103>> @@
    COMPUTE_INDIRECT_IRRADIANCE_FILENAME :> <<99, 111, 109, 112, 117, 116, 101, 45, 105, 110, 100, 105, 114, 101, 99, 116, 45, 105, 114, 114, 97, 100, 105, 97, 110, 99, 101, 46, 102, 114, 97, 103>> @@
    COMPUTE_TRANSMITTANCE_SHADER_FILENAME :> <<99, 111, 109, 112, 117, 116, 101, 45, 116, 114, 97, 110, 115, 109, 105, 116, 116, 97, 110, 99, 101, 45, 102, 117, 110, 99, 116, 105, 111, 110, 115, 46, 102, 114, 97, 103>> @@
    TOTAL_SCATTERING_COEFFICIENT_SHADER_FILENAME :> <<116, 111, 116, 97, 108, 45, 115, 99, 97, 116, 116, 101, 114, 105, 110, 103, 45, 99, 111, 101, 102, 102, 105, 99, 105, 101, 110, 116, 46, 102, 114, 97, 103>> @@
    "compute-transmittance.frag" :> <<99, 111, 109, 112, 117, 116, 101, 45, 116, 114, 97, 110, 115, 109, 105, 116, 116, 97, 110, 99, 101, 46, 102, 114, 97, 103>> @@
    "compute-direct-irradiance.frag" :> <<99, 111, 109, 112, 117, 116, 101, 45, 100, 105, 114, 101, 99, 116, 45, 105, 114, 114, 97, 100, 105, 97, 110, 99, 101, 46, 102, 114, 97, 103>> @@
    "compute-single-scattering.frag" :> <<99, 111, 109, 112, 117, 116, 101, 45, 115, 105, 110, 103, 108, 101, 45, 115, 99, 97, 116, 116, 101, 114, 105, 110, 103, 46, 102, 114, 97, 103>> @@
    "compute-multiple-scattering.frag" :> <<99, 111, 109, 112, 117, 116, 101, 45, 109, 117, 108, 116, 105, 112, 108, 101, 45, 115, 99, 97, 116, 116, 101, 114, 105, 110, 103, 46, 102, 114, 97, 103>> @@
    "copy-scattering-texture.frag" :> <<99, 111, 112, 121, 45, 115, 99, 97, 116, 116, 101, 114, 105, 110, 103, 45, 116, 101, 120, 116, 117, 114, 101, 46, 102, 114, 97, 103>>

\* operator< of QString: the code units are compared one by one, and a proper
\* prefix comes first.
RECURSIVE LessThan(_, _)
LessThan(a, b) ==
    IF b = <<>> THEN FALSE
    ELSE IF a = <<>> THEN TRUE
    ELSE IF Head(a) = Head(b) THEN LessThan(Tail(a), Tail(b))
    ELSE Head(a) < Head(b)

\* The names of a set in increasing order.
RECURSIVE InOrder(_)
InOrder(S) ==
    IF S = {} THEN <<>>
    ELSE LET first == CHOOSE x \in S :
                          \A y \in S \ {x} : LessThan(CodeUnits[x], CodeUnits[y])
         IN <<first>> \o InOrder(S \ {first})

\* The fragment shaders of every program, as the std::set is iterated.
SortedFragmentShaders ==
    [main \in MainShaderFiles |-> InOrder(FragmentShadersOf(main))]

\* The requests compileShaderProgram makes to the cache, in order: the
\* fragment shaders in the order of the std::set (lines 303-304), then the
\* vertex and the geometry stage.
ShaderRequests(mainSrcFileName, useGeomShader) ==
    SortedFragmentShaders[mainSrcFileName] \o StagesAfterFragments(useGeomShader)

\* The files compileShaderProgram asks the cache for.
ShadersOfProgram(mainSrcFileName, useGeomShader) ==
    FragmentShadersOf(mainSrcFileName)
        \cup {StagesAfterFragments(useGeomShader)[i] :
                  i \in DOMAIN StagesAfterFragments(useGeomShader)}

\* The loop over the requests; the state after a request is bound to a name
\* (as the element of a singleton) so that it is computed once.
RECURSIVE AddShaders(_, _, _)
AddShaders(st, directory, requests) ==
    IF requests = <<>> THEN st
    ELSE CHOOSE result \in {AddShaders(getOrCompileShader(s, directory, Head(requests)),
                                       directory, Tail(requests)) : s \in {st}} : TRUE

\* Line 225: is request i answered from the cache the call started with?
AnsweredFromCache(cache, requests, i) == requests[i] \in DOMAIN cache

\* The files the scan of the include lines (line 300) opens: the main shader
\* (line 275) and the shaders it is linked with, except those of
\* internalShaders and itself (line 287).
FilesScanned(mainSrcFileName, internal) ==
    {mainSrcFileName} \cup (LinkSetOf(mainSrcFileName) \ (internal \cup {mainSrcFileName}))

\* The files compileShader(type, filename) opens: the file (line 218) and
\* the headers its include lines name (line 186).
FilesOpenedToCompile(filename) == {filename} \cup HeaderFilesOpened(IncludesOf(filename))

\* Can every file of the set be opened?
AllOpened(directory, fileNames) == \A n \in fileNames : getShaderSrc(directory, n).opened

\* The number of requests answered before a file cannot be opened: the scan
\* opens its files before the first request, a request that is not answered
\* from the cache opens the files of its compilation. Len(requests) when
\* every file is opened.
RequestsBeforeOpenError(cache, directory, internal, mainSrcFileName, requests) ==
    IF ~AllOpened(directory, FilesScanned(mainSrcFileName, internal))
    THEN 0
    ELSE LET failing == {i \in DOMAIN requests :
                            /\ ~AnsweredFromCache(cache, requests, i)
                            /\ ~AllOpened(directory, FilesOpenedToCompile(requests[i]))}
         IN IF failing = {} THEN Len(requests)
            ELSE (CHOOSE i \in failing : \A j \in failing : i <= j) - 1

\* Does getShaderSrc throw in the call (lines 175-179)?
OpenErrorIn(cache, directory, internal, mainSrcFileName, useGeomShader) ==
    RequestsBeforeOpenError(cache, directory, internal, mainSrcFileName,
                            ShaderRequests(mainSrcFileName, useGeomShader))
        < Len(ShaderRequests(mainSrcFileName, useGeomShader))

\* compileShaderProgram: every shader of the program has been looked up or
\* compiled and added to the program.
compileShaderProgram(cache, directory, mainSrcFileName, useGeomShader) ==
    AddShaders(LinkState(cache), directory, ShaderRequests(mainSrcFileName, useGeomShader))

\* allShaders.erase(name)
Evict(cache, name) == [n \in DOMAIN cache \ {name} |-> cache[n]]

\* virtualSourceFiles[name]=text;
AssignSource(st, name, text) ==
    [cache |-> st.cache,
     table |-> [n \in DOMAIN st.table \cup {name} |->
                   IF n = name THEN text ELSE st.table[n]],
     written |-> st.written \cup {name}]

\* allShaders.erase(name); virtualSourceFiles[name]=text;
WriteSource(st, name, text) ==
    AssignSource([st EXCEPT !.cache = Evict(st.cache, name)], name, text)

\* The writes of a pass, in order; each state is bound to a name so that it
\* is computed once.
RECURSIVE WriteSources(_, _)
WriteSources(st, writes) ==
    IF writes = <<>> THEN st
    ELSE CHOOSE result \in {WriteSources(WriteSource(s, Head(writes)[1], Head(writes)[2]),
                                         Tail(writes)) : s \in {st}} : TRUE

\* A pass writes its virtual sources, each after erasing its cache entry, and
\* calls compileShaderProgram, which returns.
RunCompile(writes, mainSrcFileName, useGeomShader) ==
    \E st \in {WriteSources([cache |-> allShaders, table |-> virtualSourceFiles,
                             written |-> dirty], writes)} :
    \E linked \in {compileShaderProgram(st.cache, shaderFiles, mainSrcFileName, useGeomShader)} :
       /\ ~OpenErrorIn(st.cache, shaderFiles, internalShaders, mainSrcFileName, useGeomShader)
       /\ virtualSourceFiles' = st.table
       /\ allShaders' = linked.cache
       /\ lastCompile' = [log |-> Append(lastCompile.log,
                                           [main |-> mainSrcFileName,
                                            program |-> linked.program]),
                          main |-> mainSrcFileName,
                          names |-> ShadersOfProgram(mainSrcFileName, useGeomShader),
                          cache |-> st.cache,
                          table |-> st.table,
                          written |-> st.written,
                          compiled |-> linked.compiled,
                          program |-> linked.program,
                          stored |-> linked.cache,
                          useGeomShader |-> useGeomShader]
       /\ dirty' = {}

\* No program has been compiled yet.
NoCompile ==
    [log |-> <<>>, main |-> "", names |-> {}, cache |-> <<>>, table |-> <<>>, written |-> {},
     compiled |-> <<>>, program |-> <<>>, stored |-> <<>>, useGeomShader |-> FALSE]

\* ----------------------------------------------------------------- GL calls
Call(name, fbo, arg, layer) == [call |-> name, fbo |-> fbo, arg |-> arg, layer |-> layer]

glFramebufferTexture(fbo, tex) == Call("glFramebufferTexture", fbo, tex, -1)

checkFramebufferStatus(fbo) == Call("checkFramebufferStatus", fbo, "", -1)

glFinish(fbo) == Call("glFinish", fbo, "", -1)

\* renderQuad(); gl.glFinish(); of a pass that draws one quad into a 2-D target.
renderQuadAndFinish(fbo) == <<Call("renderQuad", fbo, "", -1), glFinish(fbo)>>

\* Mutant: one glFinish after the loop over the layers.
render3DTexLayers_FinishAtEnd(fbo, depth) ==
    [i \in 1..depth |-> Call("renderQuad", fbo, "", i - 1)] \o <<glFinish(fbo)>>

\* render3DTexLayers: for every layer the quad is drawn and glFinish called.
render3DTexLayers(fbo, depth) ==
    [i \in 1..(2 * depth) |->
        IF i % 2 = 1 THEN Call("renderQuad", fbo, "", (i - 1) \div 2) ELSE glFinish(fbo)]

\* The saveTexture calls that added the files after the first n of fs, made
\* while the framebuffer fbo is bound.
SaveCalls(fbo, n, fs) ==
    [i \in 1..(Len(fs) - n) |-> Call("saveTexture", fbo, fs[n + i].name, -1)]

\* ------------------------------------------- getShaderFileNamesToLinkWith
\* A shader file is a number, 0 the main file of the program; the include
\* line of the header of file h is written h, that of the constants header
\* CONSTANTS_HEADER. An input of the scan gives the include lines of every
\* file, in the order of the lines, the set internalShaders, and the files
\* that are missing from the shader directory.
CONSTANTS_HEADER == -1

maxRecursionDepth == 50

\* What is written to std::cerr before MustQuit is thrown: the text, the
\* number printed after it and the file names that appear in it.
ErrorMessage(text, number, fileNames) ==
    [text |-> text, number |-> number, files |-> fileNames]

\* Mutant: the message names the file whose scan exceeded the depth.
IncludeDepthMessage_NamesFile(filename) ==
    ErrorMessage("Include recursion depth exceeded", maxRecursionDepth, {filename})

\* Line 271: "Include recursion depth exceeded " << maxRecursionDepth.
IncludeDepthMessage(filename) ==
    ErrorMessage("Include recursion depth exceeded", maxRecursionDepth, {})

\* Line 177: "Error opening shader \"" << fileName << "\"".
OpenErrorMessage(fileName) == ErrorMessage("Error opening shader", 0, {fileName})

\* Line 269: if(recursionDepth>maxRecursionDepth)
DepthExceeded(recursionDepth) == recursionDepth > maxRecursionDepth

Returned(filenames) == [ok |-> TRUE, names |-> filenames, message |-> ErrorMessage("", 0, {})]

Thrown(message) == [ok |-> FALSE, names |-> {}, message |-> message]

\* The activation record of one call of getShaderFileNamesToLinkWith: the
\* file, its include lines not yet looked at, and the names found so far.
Frame(input, filename) ==
    [filename |-> filename, lines |-> input.includes[filename], filenames |-> {}]

\* File i includes the header of file i+1, for i < n.
Chain(n) ==
    [includes |-> [f \in 0..n |-> IF f < n THEN <<f + 1>> ELSE <<>>],
     internalShaders |-> {}, missing |-> {}]

\* The elements of a set of numbers as a sequence, in increasing order.
RECURSIVE Sorted(_)
Sorted(S) ==
    IF S = {} THEN <<>>
    ELSE LET m == CHOOSE x \in S : \A y \in S : x <= y
         IN <<m>> \o Sorted(S \ {m})

GraphFiles == {0, 1, 2}

\* Every include table over three files, cyclic ones and self-includes
\* among them, with and without an internal shader, with every file in the
\* shader directory and with one of the companions missing; the main file
\* includes the constants header first.
SmallGraphs ==
    {[includes |-> [f \in GraphFiles |->
                       IF f = 0 THEN <<CONSTANTS_HEADER>> \o Sorted(inc[f])
                       ELSE Sorted(inc[f])],
      internalShaders |-> int, missing |-> mis] :
        inc \in [GraphFiles -> SUBSET GraphFiles], int \in {{}, {2}},
        mis \in {{}, {1}, {2}}}

ScanInputs == {Chain(n) : n \in 0..MaxChain} \cup SmallGraphs

\* ------------------------------------------------------------------ process
RUNNING == -1

\* Exit status of a process ended by std::terminate (SIGABRT).
ABORTED == 134

\* No exception has been thrown.
NotRaised == [kind |-> "none", at |-> "", passes |-> 0, files |-> 0]

\* What can be thrown inside the try block of main(): MustQuit, an exception
\* derived from std::exception, or anything else.
ExceptionKinds == {"MustQuit", "std::exception", "other"}

\* Mutant: the handler of std::exception falls through to the end of main.
ExitStatusOf_ExceptionIsSuccess(kind) ==
    IF kind = "MustQuit" THEN 1
    ELSE IF kind = "std::exception" THEN 0
    ELSE ABORTED

\* Lines 545-553: the two handlers of main(); an exception that neither
\* catches leaves main() and ends the process by std::terminate.
ExitStatusOf(kind) ==
    IF kind = "MustQuit" THEN 1
    ELSE IF kind = "std::exception" THEN 111
    ELSE ABORTED

\* Mutant: the context is created before the command line is handled.
MainSequence_ContextFirst ==
    <<"context.create", "handleCmdLine", "surface.create", "initializeOpenGLFunctions",
      "init", "main_for">>

\* Lines 476-516: the statements of the try block of main() up to its loop.
MainSequence ==
    <<"handleCmdLine", "context.create", "surface.create", "initializeOpenGLFunctions",
      "init", "main_for">>

\* The statement that follows the given one.
Following(statement) ==
    MainSequence[(CHOOSE i \in DOMAIN MainSequence : MainSequence[i] = statement) + 1]

\* The state of everything but the inputs when main() enters its loop over
\* the wavelength sets (line 516).
FreshRun ==
    /\ texIndex = 0
    /\ scatteringOrder = 0
    /\ scattererIndex = 0
    /\ textures = [t \in TextureIds |-> SetToBag({Uninitialized})]
    /\ blend = BlendAll(FALSE)
    /\ blendFunc = BLEND_ONE_ZERO
    /\ boundFbo = FBO_DEFAULT
    /\ fboAttach = [f \in FboIds |-> [i \in 0..1 |-> NO_TEXTURE]]
    /\ drawBuffers = [f \in FboIds |-> 1]
    /\ files = <<>>
    /\ passLog = <<>>
    /\ allShaders = <<>>
    /\ virtualSourceFiles = <<>>
    /\ lastCompile = NoCompile
    /\ dirty = {}
    /\ glCalls = <<>>
    /\ exitStatus = RUNNING
    /\ raised = NotRaised
    /\ scanStack = <<>>
    /\ scanResult = <<>>
    /\ srcStream = <<>>
    /\ lineNumber = 0
    /\ listed = <<>>
    /\ headerNumber = 0
    /\ newSrc = <<>>

\* The same, in a process that is not compared with an earlier run and finds
\* every file of the shader directory; the scan reads the include lines of
\* the main shader only.
InitState ==
    /\ FreshRun
    /\ otherRun = <<>>
    /\ shaderFiles = ShaderDirectoryFiles
    /\ internalShaders = VirtualFileNames

\* main() has created the context and called init(), and enters its loop.
AtMainLoop ==
    /\ pc = "main_for"
    /\ glContext = TRUE
    /\ initCalled = TRUE
    /\ scanInput = <<>>
    /\ shaderSource = <<>>
    /\ includeInput = <<>>

Init ==
    /\ allWavelengthsSize \in 1..MaxSets
    /\ scatterers \in ScattererLists
    /\ scatteringOrdersToCompute \in 2..MaxOrders
    /\ saveResultAsRadiance \in BOOLEAN
    /\ dbg \in DbgConfigs
    /\ scatTexDepth = MaxLayers
    /\ AtMainLoop
    /\ InitState

\* Luminance runs over up to MaxQuadratureSets wavelength sets, with one
\* scatterer and the debug dumps off: the inputs of the quadrature weights.
InitQuadrature ==
    /\ allWavelengthsSize \in 1..MaxQuadratureSets
    /\ scatterers = <<1>>
    /\ scatteringOrdersToCompute \in {2, 3}
    /\ saveResultAsRadiance = FALSE
    /\ dbg = {}
    /\ scatTexDepth = MaxLayers
    /\ AtMainLoop
    /\ InitState

\* ---------------------------------------------------------------- main()
\* main(), lines 516-530: the loop test and the per-set preparation.
BeginSet ==
    /\ pc = "main_for"
    /\ texIndex < allWavelengthsSize
    /\ AllOpened(shaderFiles, TransmittanceFunctionsHeaders)
    /\ pc' = "computeTransmittance"
    /\ UNCHANGED <<config, including, process, scan, listing, loopVars, textures, glState, files, passLog>>
    /\ LET st0 == [cache |-> <<>>, table |-> virtualSourceFiles, written |-> dirty]
           st1 == AssignSource(st0, COMPUTE_TRANSMITTANCE_SHADER_FILENAME,
                               Source("makeTransmittanceComputeFunctionsSrc", texIndex, 0, 0, ""))
           st2 == AssignSource(st1, PHASE_FUNCTIONS_SHADER_FILENAME,
                               Source("makePhaseFunctionsSrc", -1, 0, 0, ""))
           st == AssignSource(st2, TOTAL_SCATTERING_COEFFICIENT_SHADER_FILENAME,
                              Source("makeTotalScatteringCoefSrc", -1, 0, 0, ""))
       IN /\ allShaders' = st.cache
          /\ virtualSourceFiles' = st.table
          /\ dirty' = st.written
    /\ glCalls' = <<>>
    /\ UNCHANGED lastCompile

\* main(): the loop over the wavelength sets is over; control reaches the end
\* of main, which is a return of 0.
MainReturn ==
    /\ pc = "main_for"
    /\ texIndex >= allWavelengthsSize
    /\ pc' = "done"
    /\ exitStatus' = 0
    /\ glCalls' = <<>>
    /\ UNCHANGED <<config, including, raised, glContext, initCalled, scan, listing, shaderVars, loopVars, textures,
                   glState, files, passLog>>

computeTransmittance ==
    /\ pc = "computeTransmittance"
    /\ LET att == Attach(fboAttach, FBO_TRANSMITTANCE, 0, TEX_TRANSMITTANCE)
           out == <<SetToBag({Term("computeTransmittance", texIndex, 1, 0)})>>
           tex == Draw(textures, FBO_TRANSMITTANCE, att, drawBuffers, blend, blendFunc, out)
       IN /\ fboAttach' = att
          /\ textures' = tex
          /\ passLog' = Append(passLog,
                PassRec("computeTransmittance", texIndex, 1, 0, FBO_TRANSMITTANCE,
                        Targets(FBO_TRANSMITTANCE, att, drawBuffers), {},
                        blend, blendFunc, tex))
          /\ files' = Append(files, FileRec("transmittance-wlset", 0, texIndex,
                                            tex[TEX_TRANSMITTANCE], Len(passLog) + 1))
    /\ boundFbo' = FBO_DEFAULT
    /\ pc' = "computeDirectGroundIrradiance"
    /\ UNCHANGED <<config, including, process, scan, listing, loopVars, blend, blendFunc, drawBuffers>>
    /\ RunCompile(<<>>, "compute-transmittance.frag", FALSE)
    /\ glCalls' = <<glFramebufferTexture(FBO_TRANSMITTANCE, TEX_TRANSMITTANCE),
                    checkFramebufferStatus(FBO_TRANSMITTANCE)>>
                  \o renderQuadAndFinish(FBO_TRANSMITTANCE) \o SaveCalls(FBO_TRANSMITTANCE, Len(files), files')

computeDirectGroundIrradiance ==
    /\ pc = "computeDirectGroundIrradiance"
    /\ LET att == Attach(Attach(fboAttach, FBO_IRRADIANCE, 0, TEX_DELTA_IRRADIANCE),
                         FBO_IRRADIANCE, 1, TEX_IRRADIANCE)
           nbuf == [drawBuffers EXCEPT ![FBO_IRRADIANCE] = 2]
           val == SetToBag({Term("computeDirectGroundIrradiance", texIndex, 1, 0)})
           tex == Draw(textures, FBO_IRRADIANCE, att, nbuf, blend, blendFunc,
                       IrradianceShaderOutputs(val))
       IN /\ fboAttach' = att
          /\ drawBuffers' = nbuf
          /\ textures' = tex
          /\ passLog' = Append(passLog,
                PassRec("computeDirectGroundIrradiance", texIndex, 1, 0, FBO_IRRADIANCE,
                        Targets(FBO_IRRADIANCE, att, nbuf), {TEX_TRANSMITTANCE},
                        blend, blendFunc, tex))
          /\ files' = saveIrradiance(files, tex, 1, texIndex, Len(passLog) + 1)
    /\ boundFbo' = FBO_DEFAULT
    /\ pc' = "computeScatteringDensityOrder2"
    /\ UNCHANGED <<config, including, process, scan, listing, loopVars, blend, blendFunc>>
    /\ RunCompile(<<>>, "compute-direct-irradiance.frag", FALSE)
    /\ glCalls' = <<glFramebufferTexture(FBO_IRRADIANCE, TEX_DELTA_IRRADIANCE),
                    glFramebufferTexture(FBO_IRRADIANCE, TEX_IRRADIANCE),
                    checkFramebufferStatus(FBO_IRRADIANCE)>>
                  \o renderQuadAndFinish(FBO_IRRADIANCE) \o SaveCalls(FBO_IRRADIANCE, Len(files), files')

\* Mutant: the source defines the density functions of no scatterer in particular.
ScattererDensitiesSrc_NoScatterer(k, scatterer) ==
    Source("makeScattererDensityFunctionsSrc", -1, 0, 0, "")

\* Lines 128-130: makeScattererDensityFunctionsSrc() followed by
\* scattererDensity and scatteringCrossSection of the scatterer, the cross
\* section at the wavelengths of set k.
ScattererDensitiesSrc(k, scatterer) ==
    Source("makeScattererDensityFunctionsSrc", k, 0, scatterer, "")

\* Lines 212-213 and 290-291: makePhaseFunctionsSrc() followed by a
\* currentPhaseFunction that returns the phase function of the scatterer.
PhaseFunctionsSrcFor(scatterer) == Source("makePhaseFunctionsSrc", -1, 0, scatterer, "")

\* Lines 159-160: makePhaseFunctionsSrc() followed by a currentPhaseFunction
\* that belongs to no scatterer.
PhaseFunctionsSrcStub == Source("makePhaseFunctionsSrc", -1, 0, -1, "")

\* ------------------------------------------ computeScatteringDensityOrder2
\* Lines 150-201: the density of order 2 from the radiation of the ground,
\* then glBlendFunc(GL_ONE, GL_ONE) and the entry into the scatterer loop.
computeScatteringDensityOrder2_ground ==
    /\ pc = "computeScatteringDensityOrder2"
    /\ LET att == Attach(fboAttach, FBO_MULTIPLE_SCATTERING, 0, TEX_DELTA_SCATTERING_DENSITY)
           out == <<SetToBag({Term("computeScatteringDensityOrder2_ground", texIndex, 2, 0)})>>
           tex == Draw(textures, FBO_MULTIPLE_SCATTERING, att, drawBuffers, blend, blendFunc, out)
           at == Len(passLog) + 1
       IN /\ fboAttach' = att
          /\ textures' = tex
          /\ passLog' = Append(passLog,
                PassRec("computeScatteringDensityOrder2_ground", texIndex, 2, 0,
                        FBO_MULTIPLE_SCATTERING,
                        Targets(FBO_MULTIPLE_SCATTERING, att, drawBuffers),
                        {TEX_TRANSMITTANCE, TEX_DELTA_IRRADIANCE}, blend, blendFunc, tex))
          /\ files' = IF "dbgSaveScatDensityOrder2FromGround" \in dbg
                      THEN Append(files, FileRec("scattering-density2-from-ground-wlset", 0,
                                                 texIndex, tex[TEX_DELTA_SCATTERING_DENSITY], at))
                      ELSE files
    /\ boundFbo' = FBO_MULTIPLE_SCATTERING
    /\ blendFunc' = BLEND_ONE_ONE
    /\ scattererIndex' = 0
    /\ pc' = "order2_for"
    /\ UNCHANGED <<config, including, process, scan, listing, texIndex, scatteringOrder, blend, drawBuffers>>
    /\ RunCompile(<<<<DENSITIES_SHADER_FILENAME,
                      Source("makeScattererDensityFunctionsSrc", -1, 0, 0, "")>>,
                    <<PHASE_FUNCTIONS_SHADER_FILENAME, PhaseFunctionsSrcStub>>,
                    <<COMPUTE_SCATTERING_DENSITY_FILENAME, SubstituteDensityTokens(getShaderSrc_IgnoreCache(COMPUTE_SCATTERING_DENSITY_FILENAME), "true", 2)>>>>,
                  COMPUTE_SCATTERING_DENSITY_FILENAME, TRUE)
    /\ glCalls' = <<glFramebufferTexture(FBO_MULTIPLE_SCATTERING, TEX_DELTA_SCATTERING_DENSITY),
                    checkFramebufferStatus(FBO_MULTIPLE_SCATTERING)>>
                  \o render3DTexLayers(FBO_MULTIPLE_SCATTERING, scatTexDepth)
                  \o SaveCalls(FBO_MULTIPLE_SCATTERING, Len(files), files')

\* Mutant: the scatterers are walked from the last declared to the first.
scattererAt_Reversed(list, idx) == list[Len(list) - idx]

\* scatterers[scattererIndex] (lines 204 and 287), scattererIndex counting from 0.
scattererAt(list, idx) == list[idx + 1]

\* Lines 120-147, called at line 208 for scatterers[scattererIndex].
computeSingleScattering ==
    /\ pc = "order2_for"
    /\ scattererIndex < Len(scatterers)
    /\ LET scatterer == scattererAt(scatterers, scattererIndex)
           att == Attach(fboAttach, FBO_DELTA_SCATTERING, 0, TEX_DELTA_SCATTERING)
           out == <<SetToBag({Term("computeSingleScattering", texIndex, 1, scatterer)})>>
           tex == Draw(textures, FBO_DELTA_SCATTERING, att, drawBuffers, blend, blendFunc, out)
       IN /\ fboAttach' = att
          /\ textures' = tex
          /\ passLog' = Append(passLog,
                PassRec("computeSingleScattering", texIndex, 1, scatterer,
                        FBO_DELTA_SCATTERING,
                        Targets(FBO_DELTA_SCATTERING, att, drawBuffers),
                        {TEX_TRANSMITTANCE}, blend, blendFunc, tex))
    /\ boundFbo' = FBO_DEFAULT
    /\ pc' = "order2_density"
    /\ UNCHANGED <<config, including, process, scan, listing, loopVars, blend, blendFunc, drawBuffers, files>>
    /\ RunCompile(<<<<DENSITIES_SHADER_FILENAME,
                      ScattererDensitiesSrc(texIndex, scattererAt(scatterers, scattererIndex))>>>>,
                  "compute-single-scattering.frag", TRUE)
    /\ glCalls' = <<glFramebufferTexture(FBO_DELTA_SCATTERING, TEX_DELTA_SCATTERING),
                    checkFramebufferStatus(FBO_DELTA_SCATTERING)>>
                  \o render3DTexLayers(FBO_DELTA_SCATTERING, scatTexDepth)

\* Mutant: blending is left as the pass before left it.
DensityOrder2Blend_NotEnabled(bl) == bl

\* Line 232: glEnable(GL_BLEND) before the density of a scatterer is drawn.
DensityOrder2Blend(bl) == BlendAll(TRUE)

\* Lines 209-233: the density of order 2 from scatterers[scattererIndex].
computeScatteringDensityOrder2_scatterer ==
    /\ pc = "order2_density"
    /\ LET scatterer == scattererAt(scatterers, scattererIndex)
           bl == DensityOrder2Blend(blend)
           out == <<SetToBag({Term("computeScatteringDensityOrder2_scatterer", texIndex, 2, scatterer)})>>
           tex == Draw(textures, FBO_MULTIPLE_SCATTERING, fboAttach, drawBuffers, bl, blendFunc, out)
       IN /\ blend' = bl
          /\ textures' = tex
          /\ passLog' = Append(passLog,
                PassRec("computeScatteringDensityOrder2_scatterer", texIndex, 2, scatterer,
                        FBO_MULTIPLE_SCATTERING,
                        Targets(FBO_MULTIPLE_SCATTERING, fboAttach, drawBuffers),
                        {TEX_DELTA_SCATTERING}, bl, blendFunc, tex))
    /\ boundFbo' = FBO_MULTIPLE_SCATTERING
    /\ pc' = "computeIndirectIrradianceOrder1"
    /\ UNCHANGED <<config, including, process, scan, listing, loopVars, blendFunc, fboAttach, drawBuffers, files>>
    /\ RunCompile(<<<<PHASE_FUNCTIONS_SHADER_FILENAME, PhaseFunctionsSrcFor(scattererAt(scatterers, scattererIndex))>>,
                    <<COMPUTE_SCATTERING_DENSITY_FILENAME, SubstituteDensityTokens(getShaderSrc_IgnoreCache(COMPUTE_SCATTERING_DENSITY_FILENAME), "false", 2)>>>>,
                  COMPUTE_SCATTERING_DENSITY_FILENAME, TRUE)
    /\ glCalls' = render3DTexLayers(FBO_MULTIPLE_SCATTERING, scatTexDepth)

\* Mutant: every scatterer, the first too, adds to the delta-irradiance texture.
IndirectIrradianceOrder1Blend_AlwaysAdd(bl, scatIdx) ==
    [bl EXCEPT ![0] = TRUE, ![1] = TRUE]

\* Mutant: every scatterer overwrites the delta-irradiance texture.
IndirectIrradianceOrder1Blend_AlwaysOverwrite(bl, scatIdx) ==
    [bl EXCEPT ![0] = FALSE, ![1] = TRUE]

\* Lines 281-285: the blend state of the two draw buffers of the irradiance
\* framebuffer (glDisablei / glEnablei act on one draw buffer).
IndirectIrradianceOrder1Blend(bl, scatIdx) ==
    [bl EXCEPT ![0] = (scatIdx # 0), ![1] = TRUE]

\* Mutant: the pass switches blending off for the accumulated irradiance only.
IndirectIrradianceOrder1BlendAtExit_OnlyBuffer1(bl) == [bl EXCEPT ![1] = FALSE]

\* Mutant: the pass returns with the blend state it drew with.
IndirectIrradianceOrder1BlendAtExit_Missing(bl) == bl

\* Line 308: glDisable(GL_BLEND) at the end of the pass.
IndirectIrradianceOrder1BlendAtExit(bl) == BlendAll(FALSE)

\* Lines 272-311, called at line 235; the loop increment of line 202 follows.
computeIndirectIrradianceOrder1 ==
    /\ pc = "computeIndirectIrradianceOrder1"
    /\ LET scatterer == scattererAt(scatterers, scattererIndex)
           bl == IndirectIrradianceOrder1Blend(blend, scattererIndex)
           val == SetToBag({Term("computeIndirectIrradianceOrder1", texIndex, 2, scatterer)})
           tex == Draw(textures, FBO_IRRADIANCE, fboAttach, drawBuffers, bl, blendFunc,
                       IrradianceShaderOutputs(val))
       IN /\ textures' = tex
          /\ passLog' = Append(passLog,
                PassRec("computeIndirectIrradianceOrder1", texIndex, 2, scatterer,
                        FBO_IRRADIANCE, Targets(FBO_IRRADIANCE, fboAttach, drawBuffers),
                        {TEX_DELTA_SCATTERING}, bl, blendFunc, tex))
          /\ files' = saveIrradiance(files, tex, 2, texIndex, Len(passLog) + 1)
    /\ blend' = IndirectIrradianceOrder1BlendAtExit(IndirectIrradianceOrder1Blend(blend, scattererIndex))
    /\ boundFbo' = FBO_DEFAULT
    /\ scattererIndex' = scattererIndex + 1
    /\ pc' = "order2_for"
    /\ UNCHANGED <<config, including, process, scan, listing, texIndex, scatteringOrder, blendFunc, fboAttach,
                   drawBuffers>>
    /\ RunCompile(<<<<PHASE_FUNCTIONS_SHADER_FILENAME, PhaseFunctionsSrcFor(scattererAt(scatterers, scattererIndex))>>,
                    <<COMPUTE_INDIRECT_IRRADIANCE_FILENAME, SubstituteOrderToken(getShaderSrc_IgnoreCache(COMPUTE_INDIRECT_IRRADIANCE_FILENAME), 2 - 1)>>>>,
                  COMPUTE_INDIRECT_IRRADIANCE_FILENAME, FALSE)
    /\ glCalls' = renderQuadAndFinish(FBO_IRRADIANCE) \o SaveCalls(FBO_IRRADIANCE, Len(files), files')

\* Lines 237-239: the scatterer loop is over; computeMultipleScattering goes
\* on with computeMultipleScatteringFromDensity(2, texIndex) (line 454).
computeScatteringDensityOrder2_end ==
    /\ pc = "order2_for"
    /\ scattererIndex >= Len(scatterers)
    /\ blend' = BlendAll(FALSE)
    /\ files' = saveScatteringDensity(files, textures, 2, texIndex, Len(passLog))
    /\ boundFbo' = FBO_DEFAULT
    /\ scatteringOrder' = 2
    /\ pc' = "computeMultipleScatteringFromDensity"
    /\ UNCHANGED <<config, including, process, scan, listing, shaderVars, texIndex, scattererIndex, textures,
                   blendFunc, fboAttach,
                   drawBuffers, passLog>>
    /\ glCalls' = SaveCalls(boundFbo, Len(files), files')

\* ------------------------------------------------------- orders 2 and up
\* Mutant: the loop over the orders stops one order early.
OrdersLoopContinues_OffByOne(order, nOrders) == order < nOrders

\* Line 456: the condition of the loop over the orders 3..scatteringOrdersToCompute.
OrdersLoopContinues(order, nOrders) == order <= nOrders

\* Mutant: the pass renders into the density texture, as the density pass does.
DeltaScatteringTarget_Density == TEX_DELTA_SCATTERING_DENSITY

\* Line 413: the render target of computeMultipleScatteringFromDensity.
DeltaScatteringTarget == TEX_DELTA_SCATTERING

\* Mutant: the program samples the texture it renders into.
MultipleScatteringReads_OwnTarget == {TEX_TRANSMITTANCE, TEX_DELTA_SCATTERING}

\* Lines 428-429: the sampler inputs of computeMultipleScatteringFromDensity.
MultipleScatteringReads == {TEX_TRANSMITTANCE, TEX_DELTA_SCATTERING_DENSITY}

\* Mutant: multipleScatteringTexture is bound to the accumulator.
ScatteringDensityReads_Accumulator ==
    {TEX_TRANSMITTANCE, TEX_DELTA_IRRADIANCE, TEX_MULTIPLE_SCATTERING}

\* Lines 259-261: the sampler inputs of computeScatteringDensity.
ScatteringDensityReads == {TEX_TRANSMITTANCE, TEX_DELTA_IRRADIANCE, TEX_DELTA_SCATTERING}

\* Mutant: the final file is written after the last order of every set.
FinalFileIsWritten_EverySet(order, k, nOrders, nSets, radiance) ==
    order = nOrders

\* Lines 410-441: delta scattering of scatteringOrder from the density.
computeMultipleScatteringFromDensity ==
    /\ pc = "computeMultipleScatteringFromDensity"
    /\ LET att == Attach(fboAttach, FBO_MULTIPLE_SCATTERING, 0, DeltaScatteringTarget)
           out == <<SetToBag({Term("computeMultipleScatteringFromDensity", texIndex,
                                   scatteringOrder, 0)})>>
           tex == Draw(textures, FBO_MULTIPLE_SCATTERING, att, drawBuffers, blend, blendFunc, out)
           at == Len(passLog) + 1
       IN /\ fboAttach' = att
          /\ textures' = tex
          /\ passLog' = Append(passLog,
                PassRec("computeMultipleScatteringFromDensity", texIndex, scatteringOrder, 0,
                        FBO_MULTIPLE_SCATTERING,
                        Targets(FBO_MULTIPLE_SCATTERING, att, drawBuffers),
                        MultipleScatteringReads, blend, blendFunc, tex))
          /\ files' = IF "dbgSaveDeltaScattering" \in dbg
                      THEN Append(files, FileRec("delta-scattering-order", scatteringOrder,
                                                 texIndex, tex[TEX_DELTA_SCATTERING], at))
                      ELSE files
    /\ boundFbo' = FBO_DEFAULT
    /\ pc' = "accumulateMultipleScattering"
    /\ UNCHANGED <<config, including, process, scan, listing, loopVars, blend, blendFunc, drawBuffers>>
    /\ RunCompile(<<>>, "compute-multiple-scattering.frag", TRUE)
    /\ glCalls' = <<glFramebufferTexture(FBO_MULTIPLE_SCATTERING, DeltaScatteringTarget),
                    checkFramebufferStatus(FBO_MULTIPLE_SCATTERING)>>
                  \o render3DTexLayers(FBO_MULTIPLE_SCATTERING, scatTexDepth)
                  \o SaveCalls(FBO_MULTIPLE_SCATTERING, Len(files), files')

\* Mutant: the output mode is not looked at.
AccumulateBlendEnabled_IgnoresMode(order, k, radiance) ==
    order > 2 \/ k > 0

\* Mutant: only the order decides, every set starts its accumulator afresh.
AccumulateBlendEnabled_OnlyByOrder(order, k, radiance) ==
    order > 2

\* Mutant: the accumulate pass always blends.
AccumulateBlendEnabled_Always(order, k, radiance) ==
    order >= 2 \/ (k > 0 /\ ~radiance)

\* Lines 350-353: is GL_BLEND enabled for the accumulate pass?
AccumulateBlendEnabled(order, k, radiance) ==
    order > 2 \/ (k > 0 /\ ~radiance)

\* Mutant: blending stays as the accumulate pass set it.
AccumulateBlendAtExit_Missing(bl) == bl

\* Line 388: glDisable(GL_BLEND) after the layers have been drawn.
AccumulateBlendAtExit(bl) == BlendAll(FALSE)

\* Line 399: is the final multiple-scattering file written after this pass?
FinalFileIsWritten(order, k, nOrders, nSets, radiance) ==
    order = nOrders /\ (k + 1 = nSets \/ radiance)

\* Lines 401-403: the final file (the set index is in the name in radiance mode).
FinalFile(k, radiance, content, at) ==
    IF radiance THEN FileRec("multiple-scattering-wlset", 0, k, content, at)
    ELSE FileRec("multiple-scattering-xyzw", 0, -1, content, at)

\* Mutant: the loop over the orders steps by two.
NextOrder_SkipsOne(order) == order + 2

\* Line 456: the order the loop of computeMultipleScattering works on after
\* the given one (3 after the block of orders 1 and 2, ++scatteringOrder then).
NextOrder(order) == order + 1

FilesOfAccumulate_DumpOrFinal(dump, final) == IF dump # <<>> THEN dump ELSE final

\* Lines 392-407: the accumulator is saved as a debug file if the switch is
\* on, and then as the final file if this is the last order.
FilesOfAccumulate(dump, final) == dump \o final

\* Lines 344-408, called at line 442; on return the loop of
\* computeMultipleScattering (line 456) goes to the next order.
accumulateMultipleScattering ==
    /\ pc = "accumulateMultipleScattering"
    /\ LET bl == BlendAll(AccumulateBlendEnabled(scatteringOrder, texIndex, saveResultAsRadiance))
           att == Attach(fboAttach, FBO_MULTIPLE_SCATTERING, 0, TEX_MULTIPLE_SCATTERING)
           out == <<CopyShaderOutput(textures[TEX_DELTA_SCATTERING], saveResultAsRadiance,
                                     radianceToLuminance(allWavelengthsSize, texIndex))>>
           tex == Draw(textures, FBO_MULTIPLE_SCATTERING, att, drawBuffers, bl, blendFunc, out)
           at == Len(passLog) + 1
           dump == IF "dbgSaveAccumScattering" \in dbg
                   THEN <<FileRec("multiple-scattering-to-order", scatteringOrder, texIndex,
                                  tex[TEX_MULTIPLE_SCATTERING], at)>>
                   ELSE <<>>
           final == IF FinalFileIsWritten(scatteringOrder, texIndex, scatteringOrdersToCompute,
                                          allWavelengthsSize, saveResultAsRadiance)
                    THEN <<FinalFile(texIndex, saveResultAsRadiance,
                                     tex[TEX_MULTIPLE_SCATTERING], at)>>
                    ELSE <<>>
       IN /\ fboAttach' = att
          /\ textures' = tex
          /\ passLog' = Append(passLog,
                PassRec("accumulateMultipleScattering", texIndex, scatteringOrder, 0,
                        FBO_MULTIPLE_SCATTERING,
                        Targets(FBO_MULTIPLE_SCATTERING, att, drawBuffers),
                        {TEX_DELTA_SCATTERING}, bl, blendFunc, tex))
          /\ files' = files \o FilesOfAccumulate(dump, final)
          /\ blend' = AccumulateBlendAtExit(bl)
    /\ boundFbo' = FBO_DEFAULT
    /\ scatteringOrder' = NextOrder(scatteringOrder)
    /\ pc' = "orders_for"
    /\ UNCHANGED <<config, including, process, scan, listing, texIndex, scattererIndex, blendFunc, drawBuffers>>
    /\ RunCompile(<<>>, "copy-scattering-texture.frag", TRUE)
    /\ glCalls' = <<glFramebufferTexture(FBO_MULTIPLE_SCATTERING, TEX_MULTIPLE_SCATTERING),
                    checkFramebufferStatus(FBO_MULTIPLE_SCATTERING)>>
                  \o render3DTexLayers(FBO_MULTIPLE_SCATTERING, scatTexDepth)
                  \o SaveCalls(FBO_DEFAULT, Len(files), files')

\* Lines 242-270, called at line 461 while scatteringOrder<=scatteringOrdersToCompute.
computeScatteringDensity ==
    /\ pc = "orders_for"
    /\ OrdersLoopContinues(scatteringOrder, scatteringOrdersToCompute)
    /\ LET att == Attach(fboAttach, FBO_MULTIPLE_SCATTERING, 0, TEX_DELTA_SCATTERING_DENSITY)
           out == <<SetToBag({Term("computeScatteringDensity", texIndex, scatteringOrder, 0)})>>
           tex == Draw(textures, FBO_MULTIPLE_SCATTERING, att, drawBuffers, blend, blendFunc, out)
       IN /\ fboAttach' = att
          /\ textures' = tex
          /\ passLog' = Append(passLog,
                PassRec("computeScatteringDensity", texIndex, scatteringOrder, 0,
                        FBO_MULTIPLE_SCATTERING,
                        Targets(FBO_MULTIPLE_SCATTERING, att, drawBuffers),
                        ScatteringDensityReads, blend, blendFunc, tex))
          /\ files' = saveScatteringDensity(files, tex, scatteringOrder, texIndex,
                                            Len(passLog) + 1)
    /\ boundFbo' = FBO_DEFAULT
    /\ pc' = "computeIndirectIrradiance"
    /\ UNCHANGED <<config, including, process, scan, listing, loopVars, blend, blendFunc, drawBuffers>>
    /\ RunCompile(<<<<COMPUTE_SCATTERING_DENSITY_FILENAME, SubstituteDensityTokens(getShaderSrc_IgnoreCache(COMPUTE_SCATTERING_DENSITY_FILENAME), "false", scatteringOrder)>>>>,
                  COMPUTE_SCATTERING_DENSITY_FILENAME, TRUE)
    /\ glCalls' = <<glFramebufferTexture(FBO_MULTIPLE_SCATTERING, TEX_DELTA_SCATTERING_DENSITY)>>
                  \o render3DTexLayers(FBO_MULTIPLE_SCATTERING, scatTexDepth)
                  \o SaveCalls(FBO_MULTIPLE_SCATTERING, Len(files), files')

\* Lines 321-322: delta irradiance is overwritten, total irradiance accumulated.
IndirectIrradianceBlend(bl) ==
    [bl EXCEPT ![0] = FALSE, ![1] = TRUE]

\* Lines 313-342, called at line 462.
computeIndirectIrradiance ==
    /\ pc = "computeIndirectIrradiance"
    /\ LET bl == IndirectIrradianceBlend(blend)
           val == SetToBag({Term("computeIndirectIrradiance", texIndex, scatteringOrder, 0)})
           tex == Draw(textures, FBO_IRRADIANCE, fboAttach, drawBuffers, bl, blendFunc,
                       IrradianceShaderOutputs(val))
       IN /\ textures' = tex
          /\ passLog' = Append(passLog,
                PassRec("computeIndirectIrradiance", texIndex, scatteringOrder, 0,
                        FBO_IRRADIANCE, Targets(FBO_IRRADIANCE, fboAttach, drawBuffers),
                        {TEX_DELTA_SCATTERING}, bl, blendFunc, tex))
          /\ files' = saveIrradiance(files, tex, scatteringOrder, texIndex, Len(passLog) + 1)
    /\ blend' = BlendAll(FALSE)
    /\ boundFbo' = FBO_DEFAULT
    /\ pc' = "computeMultipleScatteringFromDensity"
    /\ UNCHANGED <<config, including, process, scan, listing, loopVars, blendFunc, fboAttach, drawBuffers>>
    /\ RunCompile(<<<<COMPUTE_INDIRECT_IRRADIANCE_FILENAME, SubstituteOrderToken(getShaderSrc_IgnoreCache(COMPUTE_INDIRECT_IRRADIANCE_FILENAME), scatteringOrder - 1)>>>>,
                  COMPUTE_INDIRECT_IRRADIANCE_FILENAME, FALSE)
    /\ glCalls' = renderQuadAndFinish(FBO_IRRADIANCE) \o SaveCalls(FBO_IRRADIANCE, Len(files), files')

\* computeMultipleScattering returns (the loop of line 456 is over) and the
\* loop of main() increments texIndex (line 516).
NextSet ==
    /\ pc = "orders_for"
    /\ ~OrdersLoopContinues(scatteringOrder, scatteringOrdersToCompute)
    /\ texIndex' = texIndex + 1
    /\ pc' = "main_for"
    /\ UNCHANGED <<config, including, process, scan, listing, shaderVars, scatteringOrder, scattererIndex, textures,
                   glState, files, passLog>>
    /\ glCalls' = <<>>

Next ==
    \/ BeginSet
    \/ MainReturn
    \/ computeTransmittance
    \/ computeDirectGroundIrradiance
    \/ computeScatteringDensityOrder2_ground
    \/ computeSingleScattering
    \/ computeScatteringDensityOrder2_scatterer
    \/ computeIndirectIrradianceOrder1
    \/ computeScatteringDensityOrder2_end
    \/ computeMultipleScatteringFromDensity
    \/ accumulateMultipleScattering
    \/ computeScatteringDensity
    \/ computeIndirectIrradiance
    \/ NextSet

Spec == Init /\ [][Next]_vars

SpecQuadrature == InitQuadrature /\ [][Next]_vars

\* Every number of sets, scatterers and orders within the bounds, the debug
\* dumps off. The host is
\* one thread that runs its statements one after another, so a step that can
\* be taken is taken: weak fairness of the next-state relation.
InitProgress ==
    /\ allWavelengthsSize \in 1..MaxSets
    /\ scatterers \in {[i \in 1..n |-> i] : n \in 1..MaxScatterers}
    /\ scatteringOrdersToCompute \in 2..MaxOrders
    /\ saveResultAsRadiance \in BOOLEAN
    /\ dbg = {}
    /\ scatTexDepth = MaxLayers
    /\ AtMainLoop
    /\ InitState

SpecProgress == InitProgress /\ [][Next]_vars /\ WF_vars(Next)

\* Runs of the whole pipeline over one wavelength set, for every depth of the
\* 3-D textures, with all debug dumps or none.
InitLayers ==
    /\ allWavelengthsSize = 1
    /\ scatterers \in ScattererLists
    /\ scatteringOrdersToCompute \in {2, 3}
    /\ saveResultAsRadiance \in BOOLEAN
    /\ dbg \in {{}, DbgFlags}
    /\ scatTexDepth \in 1..MaxLayers
    /\ AtMainLoop
    /\ InitState

SpecLayers == InitLayers /\ [][Next]_vars

\* --------------------------------------------------- main() from its start
\* The shader directories of the runs of main(): the whole directory, and the
\* directory without a virtual file, without the main shader of a pass,
\* without a stage.
MainShaderDirectories ==
    {ShaderDirectoryFiles \ missing :
        missing \in {{}, {COMPUTE_TRANSMITTANCE_SHADER_FILENAME},
                     {"compute-single-scattering.frag"}, {"shader.geom"},
                     {"common-functions.h.glsl"}, {"phase-functions.h.glsl"}}}

\* The values of internalShaders of the runs of main(): every virtual file,
\* and the indirect-irradiance kernel alone.
MainInternalShaders == {VirtualFileNames, {COMPUTE_INDIRECT_IRRADIANCE_FILENAME}}

\* The process starts; the configuration is what handleCmdLine will read.
InitMain ==
    /\ allWavelengthsSize \in 1..MaxSets
    /\ scatterers \in ScattererLists
    /\ scatteringOrdersToCompute \in {2, 3}
    /\ saveResultAsRadiance \in BOOLEAN
    /\ dbg = {}
    /\ scatTexDepth = 1
    /\ pc = Head(MainSequence)
    /\ glContext = FALSE
    /\ initCalled = FALSE
    /\ scanInput = <<>>
    /\ shaderSource = <<>>
    /\ includeInput = <<>>
    /\ FreshRun
    /\ otherRun = <<>>
    /\ shaderFiles \in MainShaderDirectories
    /\ internalShaders \in MainInternalShaders

mainUnchanged ==
    UNCHANGED <<config, including, loopVars, textures, glState, files, passLog, shaderVars, glCalls, scan, listing>>

\* Line 476: handleCmdLine() returns; the configuration is valid.
handleCmdLine ==
    /\ pc = "handleCmdLine"
    /\ pc' = Following("handleCmdLine")
    /\ UNCHANGED process
    /\ mainUnchanged

\* Lines 483-503 and 507-513: "return 1;" after a failed step.
Return1 ==
    /\ exitStatus' = 1
    /\ pc' = "exited"
    /\ UNCHANGED <<raised, glContext, initCalled>>

\* Lines 483-492: the context is created, and main returns 1 if it is not valid.
createContext ==
    /\ pc = "context.create"
    /\ \E isValid \in BOOLEAN :
          IF isValid
          THEN /\ glContext' = TRUE
               /\ pc' = Following("context.create")
               /\ UNCHANGED <<exitStatus, raised, initCalled>>
          ELSE Return1
    /\ mainUnchanged

\* Lines 494-505: the offscreen surface is created and made current.
createSurface ==
    /\ pc = "surface.create"
    /\ \E isValid \in BOOLEAN :
          IF isValid
          THEN pc' = Following("surface.create") /\ UNCHANGED process
          ELSE Return1
    /\ mainUnchanged

\* Lines 507-513.
initializeOpenGLFunctions ==
    /\ pc = "initializeOpenGLFunctions"
    /\ \E ok \in BOOLEAN :
          IF ok
          THEN pc' = Following("initializeOpenGLFunctions") /\ UNCHANGED process
          ELSE Return1
    /\ mainUnchanged

\* Line 515.
init ==
    /\ pc = "init"
    /\ initCalled' = TRUE
    /\ pc' = Following("init")
    /\ UNCHANGED <<exitStatus, raised, glContext>>
    /\ mainUnchanged

\* An exception is thrown by one of the statements of main() before its
\* loop: the stack is unwound, the handler sets the exit status, and nothing
\* else runs. A configuration error is an exception thrown by handleCmdLine.
Throw ==
    /\ pc \in {MainSequence[i] : i \in 1..(Len(MainSequence) - 1)}
    /\ \E kind \in ExceptionKinds :
          /\ raised' = [kind |-> kind, at |-> pc, passes |-> Len(passLog), files |-> Len(files)]
          /\ exitStatus' = ExitStatusOf(kind)
    /\ pc' = "exited"
    /\ UNCHANGED <<glContext, initCalled>>
    /\ mainUnchanged

\* What a pass has done when it calls compileShaderProgram.
CompileCall(fbo, attach, bl, calls, writes, mainSrcFileName, useGeomShader) ==
    [fbo |-> fbo, attach |-> attach, blend |-> bl, calls |-> calls, writes |-> writes,
     main |-> mainSrcFileName, useGeomShader |-> useGeomShader]

\* main() is at a pass (in a loop: at a pass of the loop's body).
InPass ==
    \/ pc \in {"computeTransmittance", "computeDirectGroundIrradiance",
               "computeScatteringDensityOrder2", "order2_density",
               "computeIndirectIrradianceOrder1", "computeMultipleScatteringFromDensity",
               "accumulateMultipleScattering", "computeIndirectIrradiance"}
    \/ pc = "order2_for" /\ scattererIndex < Len(scatterers)
    \/ pc = "orders_for" /\ OrdersLoopContinues(scatteringOrder, scatteringOrdersToCompute)

\* The statements of the pass main() is at, up to its call of
\* compileShaderProgram: the framebuffer bound, the attachments, the blend
\* state, the GL calls, the virtual sources written, and the arguments of
\* the call.
BeforeCompile ==
    CASE pc = "computeTransmittance" ->
            \* line 70
            CompileCall(boundFbo, fboAttach, blend, <<>>, <<>>,
                        "compute-transmittance.frag", FALSE)
      [] pc = "computeDirectGroundIrradiance" ->
            \* line 95
            CompileCall(boundFbo, fboAttach, blend, <<>>, <<>>,
                        "compute-direct-irradiance.frag", FALSE)
      [] pc = "computeScatteringDensityOrder2" ->
            \* lines 154-173
            CompileCall(boundFbo, fboAttach, blend, <<>>,
                        <<<<DENSITIES_SHADER_FILENAME,
                            Source("makeScattererDensityFunctionsSrc", -1, 0, 0, "")>>,
                          <<PHASE_FUNCTIONS_SHADER_FILENAME, PhaseFunctionsSrcStub>>,
                          <<COMPUTE_SCATTERING_DENSITY_FILENAME,
                            SubstituteDensityTokens(
                                getShaderSrc_IgnoreCache(COMPUTE_SCATTERING_DENSITY_FILENAME),
                                "true", 2)>>>>,
                        COMPUTE_SCATTERING_DENSITY_FILENAME, TRUE)
      [] pc = "order2_for" ->
            \* lines 122-135
            CompileCall(FBO_DELTA_SCATTERING,
                        Attach(fboAttach, FBO_DELTA_SCATTERING, 0, TEX_DELTA_SCATTERING), blend,
                        <<glFramebufferTexture(FBO_DELTA_SCATTERING, TEX_DELTA_SCATTERING),
                          checkFramebufferStatus(FBO_DELTA_SCATTERING)>>,
                        <<<<DENSITIES_SHADER_FILENAME,
                            ScattererDensitiesSrc(texIndex,
                                                  scattererAt(scatterers, scattererIndex))>>>>,
                        "compute-single-scattering.frag", TRUE)
      [] pc = "order2_density" ->
            \* lines 209-223
            CompileCall(FBO_MULTIPLE_SCATTERING, fboAttach, blend, <<>>,
                        <<<<PHASE_FUNCTIONS_SHADER_FILENAME,
                            PhaseFunctionsSrcFor(scattererAt(scatterers, scattererIndex))>>,
                          <<COMPUTE_SCATTERING_DENSITY_FILENAME,
                            SubstituteDensityTokens(
                                getShaderSrc_IgnoreCache(COMPUTE_SCATTERING_DENSITY_FILENAME),
                                "false", 2)>>>>,
                        COMPUTE_SCATTERING_DENSITY_FILENAME, TRUE)
      [] pc = "computeIndirectIrradianceOrder1" ->
            \* lines 274-297
            CompileCall(FBO_IRRADIANCE, fboAttach,
                        IndirectIrradianceOrder1Blend(blend, scattererIndex), <<>>,
                        <<<<PHASE_FUNCTIONS_SHADER_FILENAME,
                            PhaseFunctionsSrcFor(scattererAt(scatterers, scattererIndex))>>,
                          <<COMPUTE_INDIRECT_IRRADIANCE_FILENAME,
                            SubstituteOrderToken(
                                getShaderSrc_IgnoreCache(COMPUTE_INDIRECT_IRRADIANCE_FILENAME),
                                2 - 1)>>>>,
                        COMPUTE_INDIRECT_IRRADIANCE_FILENAME, FALSE)
      [] pc = "computeMultipleScatteringFromDensity" ->
            \* lines 412-421
            CompileCall(FBO_MULTIPLE_SCATTERING,
                        Attach(fboAttach, FBO_MULTIPLE_SCATTERING, 0, DeltaScatteringTarget),
                        blend,
                        <<glFramebufferTexture(FBO_MULTIPLE_SCATTERING, DeltaScatteringTarget),
                          checkFramebufferStatus(FBO_MULTIPLE_SCATTERING)>>,
                        <<>>, "compute-multiple-scattering.frag", TRUE)
      [] pc = "accumulateMultipleScattering" ->
            \* lines 350-360
            CompileCall(FBO_MULTIPLE_SCATTERING,
                        Attach(fboAttach, FBO_MULTIPLE_SCATTERING, 0, TEX_MULTIPLE_SCATTERING),
                        BlendAll(AccumulateBlendEnabled(scatteringOrder, texIndex,
                                                        saveResultAsRadiance)),
                        <<glFramebufferTexture(FBO_MULTIPLE_SCATTERING, TEX_MULTIPLE_SCATTERING),
                          checkFramebufferStatus(FBO_MULTIPLE_SCATTERING)>>,
                        <<>>, "copy-scattering-texture.frag", TRUE)
      [] pc = "orders_for" ->
            \* lines 246-256
            CompileCall(FBO_MULTIPLE_SCATTERING,
                        Attach(fboAttach, FBO_MULTIPLE_SCATTERING, 0,
                               TEX_DELTA_SCATTERING_DENSITY),
                        blend,
                        <<glFramebufferTexture(FBO_MULTIPLE_SCATTERING,
                                               TEX_DELTA_SCATTERING_DENSITY)>>,
                        <<<<COMPUTE_SCATTERING_DENSITY_FILENAME,
                            SubstituteDensityTokens(
                                getShaderSrc_IgnoreCache(COMPUTE_SCATTERING_DENSITY_FILENAME),
                                "false", scatteringOrder)>>>>,
                        COMPUTE_SCATTERING_DENSITY_FILENAME, TRUE)
      [] pc = "computeIndirectIrradiance" ->
            \* lines 320-328
            CompileCall(FBO_IRRADIANCE, fboAttach, IndirectIrradianceBlend(blend), <<>>,
                        <<<<COMPUTE_INDIRECT_IRRADIANCE_FILENAME,
                            SubstituteOrderToken(
                                getShaderSrc_IgnoreCache(COMPUTE_INDIRECT_IRRADIANCE_FILENAME),
                                scatteringOrder - 1)>>>>,
                        COMPUTE_INDIRECT_IRRADIANCE_FILENAME, FALSE)

\* Can compileShaderProgram throw when it has answered the given number of
\* requests, and what? getShaderSrc throws MustQuit at the first file that
\* cannot be opened (lines 175-179); before that, the scan of the include
\* lines (line 300), the compilation of a shader that is not in the cache
\* (lines 185-206) and the link (lines 310-315) can fail.
ThrowsAfter(cache, requests, answered, beforeOpenError, kind) ==
    IF answered = beforeOpenError /\ beforeOpenError < Len(requests)
    THEN kind = "MustQuit"
    ELSE \/ answered = 0
         \/ answered = Len(requests)
         \/ /\ answered < Len(requests)
            /\ ~AnsweredFromCache(cache, requests, answered + 1)

\* compileShaderProgram throws in the pass main() is at: what the pass did
\* before the call stays done, the cache holds the shaders compiled before
\* the exception, the stack is unwound up to the handlers of main()
\* (lines 545-553), and nothing else runs.
ThrowInPass ==
    /\ InPass
    /\ \E call \in {BeforeCompile} :
       \E st \in {WriteSources([cache |-> allShaders, table |-> virtualSourceFiles,
                                written |-> dirty], call.writes)} :
       \E requests \in {ShaderRequests(call.main, call.useGeomShader)} :
       \E beforeOpenError \in {RequestsBeforeOpenError(st.cache, shaderFiles, internalShaders,
                                                       call.main, requests)} :
       \E answered \in 0..beforeOpenError :
       \E kind \in ExceptionKinds :
          /\ ThrowsAfter(st.cache, requests, answered, beforeOpenError, kind)
          /\ \E linked \in {AddShaders(LinkState(st.cache), shaderFiles,
                                       SubSeq(requests, 1, answered))} :
                allShaders' = linked.cache
          /\ virtualSourceFiles' = st.table
          /\ dirty' = st.written
          /\ boundFbo' = call.fbo
          /\ fboAttach' = call.attach
          /\ blend' = call.blend
          /\ glCalls' = call.calls
          /\ raised' = [kind |-> kind, at |-> pc, passes |-> Len(passLog),
                        files |-> Len(files)]
          /\ exitStatus' = ExitStatusOf(kind)
    /\ pc' = "exited"
    /\ UNCHANGED <<config, including, scan, listing, loopVars, textures, blendFunc,
                   drawBuffers, files, passLog, lastCompile, glContext, initCalled>>

\* Lines 525-528: the cache is cleared, and getShaderSrc throws MustQuit in
\* makeTransmittanceComputeFunctionsSrc when a header of its source cannot be
\* opened: nothing is assigned to virtualSourceFiles, and no pass is entered.
ThrowInPrologue ==
    /\ pc = "main_for"
    /\ texIndex < allWavelengthsSize
    /\ ~AllOpened(shaderFiles, TransmittanceFunctionsHeaders)
    /\ allShaders' = <<>>
    /\ glCalls' = <<>>
    /\ raised' = [kind |-> "MustQuit", at |-> pc, passes |-> Len(passLog),
                  files |-> Len(files)]
    /\ exitStatus' = ExitStatusOf("MustQuit")
    /\ pc' = "exited"
    /\ UNCHANGED <<config, including, scan, listing, loopVars, textures, glState, files,
                   passLog, virtualSourceFiles, lastCompile, dirty, glContext, initCalled>>

NextMain ==
    \/ handleCmdLine
    \/ createContext
    \/ createSurface
    \/ initializeOpenGLFunctions
    \/ init
    \/ Throw
    \/ ThrowInPrologue
    \/ ThrowInPass
    \/ Next

SpecMain == InitMain /\ [][NextMain]_vars

\* ------------------------------------------------ the scan of the includes
\* compileShaderProgram (line 301) is about to scan the include lines of the
\* main file of a program.
InitScan ==
    /\ allWavelengthsSize = 1
    /\ scatterers = <<1>>
    /\ scatteringOrdersToCompute = 2
    /\ saveResultAsRadiance = FALSE
    /\ dbg = {}
    /\ scatTexDepth = 1
    /\ pc = "getShaderFileNamesToLinkWith"
    /\ glContext = TRUE
    /\ initCalled = TRUE
    /\ scanInput \in ScanInputs
    /\ shaderSource = <<>>
    /\ includeInput = <<>>
    /\ InitState

scanUnchanged ==
    UNCHANGED <<config, including, loopVars, textures, glState, files, passLog, shaderVars, glCalls,
                process, scanInput, listing>>

\* The exception leaves every call; what was printed is the result.
ScanThrow(message) ==
    /\ scanStack' = <<>>
    /\ scanResult' = Thrown(message)
    /\ pc' = "scanned"

\* A call of getShaderFileNamesToLinkWith(filename, recursionDepth) by the
\* call on top of the stack (lines 268-276): it throws if the depth exceeds
\* the limit; otherwise getShaderSrc (line 275) throws if the file cannot be
\* opened; otherwise the call starts to read the lines of the file.
ScanCall(stack, filename) ==
    IF DepthExceeded(Len(stack))
    THEN ScanThrow(IncludeDepthMessage(filename))
    ELSE IF filename \in scanInput.missing
         THEN ScanThrow(OpenErrorMessage(filename))
         ELSE /\ scanStack' = Append(stack, Frame(scanInput, filename))
              /\ UNCHANGED <<scanResult, pc>>

ScansCompanion_AlsoItself(input, shaderFileNameToLinkWith, filename) ==
    shaderFileNameToLinkWith \notin input.internalShaders

\* Line 287: the companion is scanned unless it is an internal shader or the
\* file being scanned.
ScansCompanion(input, shaderFileNameToLinkWith, filename) ==
    /\ shaderFileNameToLinkWith \notin input.internalShaders
    /\ shaderFileNameToLinkWith # filename

\* compileShaderProgram calls the scan for the main file, at depth 0 (line 301).
ScanMainFile ==
    /\ pc = "getShaderFileNamesToLinkWith"
    /\ scanStack = <<>>
    /\ ScanCall(scanStack, 0)
    /\ scanUnchanged

\* Lines 276-292, one include line of the file of the innermost call. The
\* line of the constants header is skipped; the companion of any other
\* header is inserted, and scanned unless it is internal or the file itself.
ScanLine ==
    /\ pc = "getShaderFileNamesToLinkWith"
    /\ scanStack # <<>>
    /\ LET top == Len(scanStack)
           frame == scanStack[top]
       IN /\ frame.lines # <<>>
          /\ LET shaderFileNameToLinkWith == Head(frame.lines)
                 skipped == [scanStack EXCEPT ![top].lines = Tail(frame.lines)]
                 inserted == [skipped EXCEPT ![top].filenames =
                                 frame.filenames \cup {shaderFileNameToLinkWith}]
             IN IF shaderFileNameToLinkWith = CONSTANTS_HEADER
                THEN scanStack' = skipped /\ UNCHANGED <<scanResult, pc>>
                ELSE IF ScansCompanion(scanInput, shaderFileNameToLinkWith, frame.filename)
                     THEN ScanCall(inserted, shaderFileNameToLinkWith)
                     ELSE scanStack' = inserted /\ UNCHANGED <<scanResult, pc>>
    /\ scanUnchanged

\* Line 293: the innermost call has read all lines and returns its names,
\* which the caller inserts into its own (line 289).
ScanReturn ==
    /\ pc = "getShaderFileNamesToLinkWith"
    /\ scanStack # <<>>
    /\ LET top == Len(scanStack)
           frame == scanStack[top]
       IN /\ frame.lines = <<>>
          /\ IF top = 1
             THEN /\ scanStack' = <<>>
                  /\ scanResult' = Returned(frame.filenames)
                  /\ pc' = "scanned"
             ELSE /\ scanStack' = [SubSeq(scanStack, 1, top - 1) EXCEPT ![top - 1].filenames =
                                      scanStack[top - 1].filenames \cup frame.filenames]
                  /\ UNCHANGED <<scanResult, pc>>
    /\ scanUnchanged

NextScan ==
    \/ ScanMainFile
    \/ ScanLine
    \/ ScanReturn

SpecScan == InitScan /\ [][NextScan]_vars

\* compileShaderProgram runs on the one thread of the generator: a step of
\* the scan that can be taken is taken.
SpecScanFair == SpecScan /\ WF_vars(NextScan)

\* The scan ends, by returning or by throwing.
ScanTerminates == <>(pc = "scanned")

\* ------------------------------------------- the listing of a failed shader
\* compileShader (shaders.cpp:183-214) prints the assembled source with line
\* numbers when the GL compiler rejects it. A line is a sequence of tokens:
\* " " is a run of whitespace, a string of digits a number, "x" any other word.
PlainLine == <<"x">>

\* "#line N"
Directive(n) == <<"#", "line", " ", ToString(n)>>

\* "#line N 0 // file", as withHeadersIncluded writes it (shaders.cpp:259-261).
GeneratedDirective(n) == <<"#", "line", " ", ToString(n), " ", "0", " ", "//", " ", "x">>

\* "  # line N"
SpacedDirective(n) == <<" ", "#", " ", "line", " ", ToString(n)>>

\* "#line" without a number, and a directive inside a comment.
BrokenDirective == <<"#", "line">>
CommentedDirective == <<"//", " ", "#", "line", " ", "1">>

DirectiveNumbers == {1, MaxDirectiveNumber}

SampleLines ==
    {PlainLine, BrokenDirective, CommentedDirective}
        \cup {Directive(n) : n \in DirectiveNumbers}
        \cup {GeneratedDirective(n) : n \in DirectiveNumbers}
        \cup {SpacedDirective(n) : n \in DirectiveNumbers}

ShaderSources == UNION {[1..n -> SampleLines] : n \in 1..MaxSourceLines}

\* [0-9]+
IsDigits(token) == \E n \in 0..MaxDirectiveNumber : ToString(n) = token

\* QString::toInt
toInt(token) == CHOOSE n \in 0..MaxDirectiveNumber : ToString(n) = token

\* \s*
DropSpaces(tokens) == IF tokens # <<>> /\ Head(tokens) = " " THEN Tail(tokens) ELSE tokens

NoMatch == [matched |-> FALSE, cap1 |-> ""]

\* QRegExp("^\\s*#\\s*line\\s+([0-9]+)\\b.*").exactMatch(line) and cap(1).
\* A number token ends at a word boundary, whatever follows it.
lineChanger(line) ==
    LET a == DropSpaces(line)
    IN IF a = <<>> \/ Head(a) # "#" THEN NoMatch
       ELSE LET b == DropSpaces(Tail(a))
            IN IF b = <<>> \/ Head(b) # "line" THEN NoMatch
               ELSE LET c == Tail(b)
                    IN IF Len(c) < 2 \/ c[1] # " " \/ ~IsDigits(c[2]) THEN NoMatch
                       ELSE [matched |-> TRUE, cap1 |-> c[2]]

\* Mutant: the directives do not change the numbering.
NextLineNumber_IgnoresDirectives(line, number) == number + 1

\* Lines 195-204: the number of the line after the given one: a directive
\* sets lineNumber to its number less one, and the loop increments it.
NextLineNumber(line, number) ==
    (IF lineChanger(line).matched THEN toInt(lineChanger(line).cap1) - 1 ELSE number) + 1

\* compileShader has assembled a source and hands it to the GL compiler.
InitListing ==
    /\ allWavelengthsSize = 1
    /\ scatterers = <<1>>
    /\ scatteringOrdersToCompute = 2
    /\ saveResultAsRadiance = FALSE
    /\ dbg = {}
    /\ scatTexDepth = 1
    /\ pc = "compileSourceCode"
    /\ glContext = TRUE
    /\ initCalled = TRUE
    /\ scanInput = <<>>
    /\ shaderSource \in ShaderSources
    /\ includeInput = <<>>
    /\ InitState

listingUnchanged ==
    UNCHANGED <<config, including, loopVars, textures, glState, files, passLog, shaderVars, glCalls,
                scan, shaderSource, glContext, initCalled>>

\* Line 187: compileSourceCode accepts the source.
CompileSucceeds ==
    /\ pc = "compileSourceCode"
    /\ pc' = "compiled"
    /\ UNCHANGED <<exitStatus, raised, srcStream, lineNumber, listed>>
    /\ listingUnchanged

\* Lines 187-194: compileSourceCode rejects the source; the listing begins.
CompileFails ==
    /\ pc = "compileSourceCode"
    /\ pc' = "readLine"
    /\ srcStream' = shaderSource
    /\ lineNumber' = 1
    /\ listed' = <<>>
    /\ UNCHANGED <<exitStatus, raised>>
    /\ listingUnchanged

\* Lines 195-204: one iteration of the loop over the lines.
ListLine ==
    /\ pc = "readLine"
    /\ srcStream # <<>>
    /\ listed' = Append(listed, [number |-> lineNumber, line |-> Head(srcStream)])
    /\ lineNumber' = NextLineNumber(Head(srcStream), lineNumber)
    /\ srcStream' = Tail(srcStream)
    /\ UNCHANGED <<pc, exitStatus, raised>>
    /\ listingUnchanged

\* Lines 205-206: readLine returns a null string; MustQuit is thrown and
\* main() returns 1.
ListingEnds ==
    /\ pc = "readLine"
    /\ srcStream = <<>>
    /\ raised' = [kind |-> "MustQuit", at |-> "compileShader",
                  passes |-> Len(passLog), files |-> Len(files)]
    /\ exitStatus' = ExitStatusOf("MustQuit")
    /\ pc' = "exited"
    /\ UNCHANGED <<srcStream, lineNumber, listed>>
    /\ listingUnchanged

NextListing ==
    \/ CompileSucceeds
    \/ CompileFails
    \/ ListLine
    \/ ListingEnds

SpecListing == InitListing /\ [][NextListing]_vars

\* ------------------------------------------------------ withHeadersIncluded
\* withHeadersIncluded (shaders.cpp:229-264) assembles the text handed to the
\* GL compiler. A text is a sequence of tokens: NL ends a line, " " is one
\* space, "  " a longer run of whitespace, QUOTE a double quote; a file name
\* is the sequence of its stem and its suffix.
NL == "\n"
QUOTE == "\""

MaxIncludeLines == 2

CONSTANTS_HEADER_FILENAME == <<"const", ".h.glsl">>
DENSITIES_HEADER_FILENAME == <<"densities", ".h.glsl">>
headerSuffix == ".h.glsl"

\* #include "name"
IncludeLine(name) == <<"#include", " ", QUOTE>> \o name \o <<QUOTE>>

\* Two headers of the shader directory that include each other, and one
\* that is not there.
HeaderA == <<"a", ".h.glsl">>
HeaderB == <<"b", ".h.glsl">>
MissingHeader == <<"c", ".h.glsl">>

\* The files of the shader directory. The text of a.h.glsl does not end
\* with a newline; files named like the two generated headers are there too.
ShaderDirectory ==
    [n \in {HeaderA, HeaderB, CONSTANTS_HEADER_FILENAME, DENSITIES_HEADER_FILENAME} |->
        CASE n = HeaderA -> IncludeLine(HeaderB) \o <<NL, "in_a">>
          [] n = HeaderB -> IncludeLine(HeaderA) \o <<NL, "in_b", NL>>
          [] n = CONSTANTS_HEADER_FILENAME -> <<"const", "file", NL>>
          [] n = DENSITIES_HEADER_FILENAME -> <<"densities", "file", NL>>]

\* getShaderSrc(fileName) (shaders.cpp:160-181): the text of the file, or
\* an error if it cannot be opened.
ShaderFile(fileName) ==
    IF fileName \in DOMAIN ShaderDirectory
    THEN [opened |-> TRUE, text |-> ShaderDirectory[fileName]]
    ELSE [opened |-> FALSE, text |-> <<>>]

\* The generated header strings, as of their g-th generation.
GeneratedHeader(name, g) == <<name, "generated", ToString(g), NL>>

\* Lines that are and are not include directives.
IncludeSampleLines ==
    {<<"x">>,
     <<>>,
     IncludeLine(CONSTANTS_HEADER_FILENAME),
     IncludeLine(DENSITIES_HEADER_FILENAME),
     IncludeLine(HeaderA),
     IncludeLine(MissingHeader),
     <<" ">> \o IncludeLine(HeaderA),
     IncludeLine(HeaderA) \o <<" ", "//", " ", "x">>,
     <<"#include", "  ", QUOTE>> \o HeaderA \o <<QUOTE>>,
     <<"#include", " ", "<", "a", ".h.glsl", ">">>,
     <<"//", " ">> \o IncludeLine(HeaderA),
     IncludeLine(<<"a", ".glsl">>)}

RECURSIVE JoinLines(_)
\* The lines, each but the last followed by a newline.
JoinLines(lines) ==
    IF lines = <<>> THEN <<>>
    ELSE IF Len(lines) = 1 THEN lines[1]
         ELSE lines[1] \o <<NL>> \o JoinLines(Tail(lines))

\* The sources: up to MaxIncludeLines lines, with or without a newline after
\* the last one.
IncludeSources ==
    LET bodies == {JoinLines(ls) :
                      ls \in UNION {[1..n -> IncludeSampleLines] : n \in 0..MaxIncludeLines}}
    IN bodies \cup {b \o <<NL>> : b \in bodies}

\* The arguments of a call and the headers generated at the time of the call.
IncludeInputs ==
    [src : IncludeSources, filename : {"main.frag"},
     constantsHeader : {GeneratedHeader("const", g) : g \in {1, 2}},
     densitiesHeader : {GeneratedHeader("densities", 1)}]

IsSpace(token) == token \in {" ", "  "}

\* QString::simplified: whitespace removed at both ends, every inner run of
\* whitespace made one space.
simplified(line) ==
    LET solid == {i \in DOMAIN line : ~IsSpace(line[i])}
    IN IF solid = {} THEN <<>>
       ELSE LET first == CHOOSE i \in solid : \A j \in solid : i <= j
                last == CHOOSE i \in solid : \A j \in solid : j <= i
            IN [i \in 1..(last - first + 1) |->
                   IF IsSpace(line[first + i - 1]) THEN " " ELSE line[first + i - 1]]

\* line.simplified().startsWith("#include \"")
StartsWithInclude(line) ==
    /\ Len(simplified(line)) >= 3
    /\ SubSeq(simplified(line), 1, 3) = <<"#include", " ", QUOTE>>

\* QRegExp("^#include \"([^\"]+)\"$").exactMatch(line) and cap(1).
includePattern(line) ==
    IF /\ Len(line) >= 5
       /\ SubSeq(line, 1, 3) = <<"#include", " ", QUOTE>>
       /\ line[Len(line)] = QUOTE
       /\ \A i \in 4..(Len(line) - 1) : line[i] # QUOTE
    THEN [matched |-> TRUE, cap1 |-> SubSeq(line, 4, Len(line) - 1)]
    ELSE [matched |-> FALSE, cap1 |-> <<>>]

\* includeFileName.endsWith(headerSuffix)
endsWith(name, suffix) == name # <<>> /\ name[Len(name)] = suffix

\* QTextStream::readLine: the text up to the next newline, and what is left
\* of the stream after it; the stream is at its end when it is empty.
HasNewline(stream) == \E i \in DOMAIN stream : stream[i] = NL

FirstNewline(stream) ==
    CHOOSE i \in DOMAIN stream : stream[i] = NL /\ \A j \in 1..(i - 1) : stream[j] # NL

readLine(stream) ==
    IF HasNewline(stream) THEN SubSeq(stream, 1, FirstNewline(stream) - 1) ELSE stream

AfterLine(stream) ==
    IF HasNewline(stream) THEN SubSeq(stream, FirstNewline(stream) + 1, Len(stream)) ELSE <<>>

HeaderOf_AlwaysFile(input, includeFileName) == ShaderFile(includeFileName)

\* Lines 256-258: the two generated headers come from the strings, every
\* other header from the shader directory.
HeaderOf(input, includeFileName) ==
    IF includeFileName = CONSTANTS_HEADER_FILENAME
    THEN [opened |-> TRUE, text |-> input.constantsHeader]
    ELSE IF includeFileName = DENSITIES_HEADER_FILENAME
         THEN [opened |-> TRUE, text |-> input.densitiesHeader]
         ELSE ShaderFile(includeFileName)

\* "#line 1 h // name\n" and "#line L 0 // filename\n" (lines 259, 261).
HeaderDirective(h, includeFileName) ==
    <<"#", "line", " ", "1", " ", ToString(h), " ", "//", " ">> \o includeFileName \o <<NL>>

ReturnDirective(L, filename) ==
    <<"#", "line", " ", ToString(L), " ", "0", " ", "//", " ", filename, NL>>

\* Lines 259-261: what replaces an include line.
Included(h, includeFileName, header, L, filename) ==
    HeaderDirective(h, includeFileName) \o header \o ReturnDirective(L + 1, filename)

StreamAfterInclude_ScansHeader(stream, header) == header \o AfterLine(stream)

\* The stream after an include line has been read: the header is not put
\* into it.
StreamAfterInclude(stream, header) == AfterLine(stream)

\* A shader source is about to be assembled.
InitInclude ==
    /\ allWavelengthsSize = 1
    /\ scatterers = <<1>>
    /\ scatteringOrdersToCompute = 2
    /\ saveResultAsRadiance = FALSE
    /\ dbg = {}
    /\ scatTexDepth = 1
    /\ pc = "withHeadersIncluded"
    /\ glContext = TRUE
    /\ initCalled = TRUE
    /\ scanInput = <<>>
    /\ shaderSource = <<>>
    /\ includeInput \in IncludeInputs
    /\ InitState

includeUnchanged ==
    UNCHANGED <<config, loopVars, textures, glState, files, passLog, shaderVars, glCalls,
                scan, shaderSource, listed, includeInput, glContext, initCalled>>

\* Lines 231-234: the stream over the source, the counters and the empty result.
IncludeEnter ==
    /\ pc = "withHeadersIncluded"
    /\ pc' = "include_readLine"
    /\ srcStream' = includeInput.src
    /\ lineNumber' = 1
    /\ headerNumber' = 1
    /\ newSrc' = <<>>
    /\ UNCHANGED <<exitStatus, raised>>
    /\ includeUnchanged

\* Lines 237-241: a line that does not begin like an include directive.
IncludeCopyLine ==
    /\ pc = "include_readLine"
    /\ srcStream # <<>>
    /\ ~StartsWithInclude(readLine(srcStream))
    /\ newSrc' = newSrc \o readLine(srcStream) \o <<NL>>
    /\ srcStream' = AfterLine(srcStream)
    /\ lineNumber' = lineNumber + 1
    /\ UNCHANGED <<pc, headerNumber, exitStatus, raised>>
    /\ includeUnchanged

\* throw MustQuit{} out of withHeadersIncluded; main() returns 1.
IncludeThrow(at) ==
    /\ raised' = [kind |-> "MustQuit", at |-> at,
                  passes |-> Len(passLog), files |-> Len(files)]
    /\ exitStatus' = ExitStatusOf("MustQuit")
    /\ pc' = "exited"
    /\ UNCHANGED <<srcStream, lineNumber, headerNumber, newSrc>>
    /\ includeUnchanged

\* Lines 242-247: the line begins like an include directive and is not one.
IncludeSyntaxError ==
    /\ pc = "include_readLine"
    /\ srcStream # <<>>
    /\ StartsWithInclude(readLine(srcStream))
    /\ ~includePattern(readLine(srcStream)).matched
    /\ IncludeThrow("syntax error in #include directive")

\* Lines 248-255: the file named does not have the suffix of a header.
IncludeSuffixError ==
    /\ pc = "include_readLine"
    /\ srcStream # <<>>
    /\ StartsWithInclude(readLine(srcStream))
    /\ includePattern(readLine(srcStream)).matched
    /\ ~endsWith(includePattern(readLine(srcStream)).cap1, headerSuffix)
    /\ IncludeThrow("file to include must have suffix")

\* Line 258 and getShaderSrc (175-179): the header cannot be opened.
IncludeOpenError ==
    /\ pc = "include_readLine"
    /\ srcStream # <<>>
    /\ StartsWithInclude(readLine(srcStream))
    /\ includePattern(readLine(srcStream)).matched
    /\ endsWith(includePattern(readLine(srcStream)).cap1, headerSuffix)
    /\ ~HeaderOf(includeInput, includePattern(readLine(srcStream)).cap1).opened
    /\ IncludeThrow("Error opening shader")

\* Lines 256-261: the include line is replaced.
IncludeHeader ==
    /\ pc = "include_readLine"
    /\ srcStream # <<>>
    /\ StartsWithInclude(readLine(srcStream))
    /\ includePattern(readLine(srcStream)).matched
    /\ LET includeFileName == includePattern(readLine(srcStream)).cap1
           header == HeaderOf(includeInput, includeFileName)
       IN /\ endsWith(includeFileName, headerSuffix)
          /\ header.opened
          /\ newSrc' = newSrc \o Included(headerNumber, includeFileName, header.text,
                                          lineNumber, includeInput.filename)
          /\ srcStream' = StreamAfterInclude(srcStream, header.text)
    /\ headerNumber' = headerNumber + 1
    /\ lineNumber' = lineNumber + 1
    /\ UNCHANGED <<pc, exitStatus, raised>>
    /\ includeUnchanged

\* Lines 235 and 263: readLine returns a null string; newSrc is returned.
IncludeReturn ==
    /\ pc = "include_readLine"
    /\ srcStream = <<>>
    /\ pc' = "include_returned"
    /\ UNCHANGED <<srcStream, lineNumber, headerNumber, newSrc, exitStatus, raised>>
    /\ includeUnchanged

NextInclude ==
    \/ IncludeEnter
    \/ IncludeCopyLine
    \/ IncludeSyntaxError
    \/ IncludeSuffixError
    \/ IncludeOpenError
    \/ IncludeHeader
    \/ IncludeReturn

SpecInclude == InitInclude /\ [][NextInclude]_vars

\* The function runs in one thread, statement after statement: a step that
\* can be taken is taken.
SpecIncludeFair == InitInclude /\ [][NextInclude]_vars /\ WF_vars(NextInclude)

\* ======================================================================
\* Properties
\* ======================================================================
InitTextures == [t \in TextureIds |-> SetToBag({Uninitialized})]

\* Content of the textures when pass i of the history started to draw.
Before(i) == IF i = 1 THEN InitTextures ELSE passLog[i - 1].after

IrradiancePasses ==
    {"computeDirectGroundIrradiance", "computeIndirectIrradianceOrder1",
     "computeIndirectIrradiance"}

IsIrradiancePass(j, k, o) ==
    /\ passLog[j].pass \in IrradiancePasses
    /\ passLog[j].set = k
    /\ passLog[j].order = o

\* The last irradiance pass of order o of set k among the first i passes.
LastIrradiancePass(k, o, i) ==
    CHOOSE j \in 1..i :
        /\ IsIrradiancePass(j, k, o)
        /\ \A j2 \in 1..i : IsIrradiancePass(j2, k, o) => j2 <= j

\* Sum over the orders 1..o of the delta irradiance each order of set k left
\* in the delta-irradiance texture (as of pass i).
RECURSIVE SumOfDeltaIrradiance(_, _, _)
SumOfDeltaIrradiance(k, o, i) ==
    IF o = 0 THEN EmptyBag
    ELSE SumOfDeltaIrradiance(k, o - 1, i)
            (+) passLog[LastIrradiancePass(k, o, i)].after[TEX_DELTA_IRRADIANCE]

\* Sum of what the irradiance shaders of set k have output in the passes 1..i.
RECURSIVE SumOfIrradianceOutputs(_, _)
SumOfIrradianceOutputs(k, i) ==
    IF i = 0 THEN EmptyBag
    ELSE SumOfIrradianceOutputs(k, i - 1)
            (+) (IF passLog[i].pass \in IrradiancePasses /\ passLog[i].set = k
                 THEN SetToBag({Term(passLog[i].pass, k, passLog[i].order, passLog[i].scatterer)})
                 ELSE EmptyBag)

\* C1: after every irradiance pass (direct, per-scatterer indirect of the
\* order-2 phase, indirect of an order >= 3) the accumulated-irradiance texture
\* equals the sum over the orders processed so far in this wavelength set of the
\* delta irradiance of each order, which is the sum of everything the
\* irradiance shaders have output in this set.
C1_AccumIrradianceIsSumOfDeltas ==
    \A i \in 1..Len(passLog) :
        passLog[i].pass \in IrradiancePasses =>
            /\ passLog[i].after[TEX_IRRADIANCE]
                   = SumOfDeltaIrradiance(passLog[i].set, passLog[i].order, i)
            /\ passLog[i].after[TEX_IRRADIANCE] = SumOfIrradianceOutputs(passLog[i].set, i)

\* The indirect irradiance of order 3 of the second wavelength set has been
\* computed, after two scatterers contributed to the order-2 phase.
C1_Witness ==
    /\ Len(scatterers) = 2
    /\ \E i \in 1..Len(passLog) :
          /\ passLog[i].pass = "computeIndirectIrradiance"
          /\ passLog[i].set = 1
          /\ passLog[i].order = 3

IsPass(j, pass, k, o) ==
    /\ passLog[j].pass = pass
    /\ passLog[j].set = k
    /\ passLog[j].order = o

\* The delta-scattering texture as computeMultipleScatteringFromDensity(o, k) left it.
DeltaScatteringOf(k, o) ==
    passLog[CHOOSE j \in 1..Len(passLog) :
                IsPass(j, "computeMultipleScatteringFromDensity", k, o)].after[TEX_DELTA_SCATTERING]

RECURSIVE SumOfDeltaScattering(_, _)
SumOfDeltaScattering(k, o) ==
    IF o < 2 THEN EmptyBag
    ELSE SumOfDeltaScattering(k, o - 1) (+) DeltaScatteringOf(k, o)

\* C2: in radiance mode, after accumulateMultipleScattering(o, k) the
\* accumulator is the sum of the delta-scattering textures of the orders 2..o
\* of set k, and nothing else (nothing of set k-1, nothing uninitialized).
C2_RadianceAccumulatorIsSumOfDeltas ==
    saveResultAsRadiance =>
        \A i \in 1..Len(passLog) :
            passLog[i].pass = "accumulateMultipleScattering" =>
                passLog[i].after[TEX_MULTIPLE_SCATTERING]
                    = SumOfDeltaScattering(passLog[i].set, passLog[i].order)

\* Radiance mode, order 3 of the second wavelength set has been accumulated.
C2_Witness ==
    /\ saveResultAsRadiance
    /\ \E i \in 1..Len(passLog) : IsPass(i, "accumulateMultipleScattering", 1, 3)

\* M_k applied to a texture content: every term gets the matrix of set k.
ProjectedBy(k, content) ==
    LET m == [set |-> k, weights |-> TrapezoidWeights(4 * allWavelengthsSize, k)]
    IN [u \in {[t EXCEPT !.lum = m] : t \in DOMAIN content} |->
           content[CHOOSE t \in DOMAIN content : [t EXCEPT !.lum = m] = u]]

RECURSIVE SumOfProjectedSets(_)
SumOfProjectedSets(k) ==
    IF k < 0 THEN EmptyBag
    ELSE SumOfProjectedSets(k - 1)
            (+) ProjectedBy(k, SumOfDeltaScattering(k, scatteringOrdersToCompute))

\* C3: in luminance mode, when the run is over the accumulator is the sum over
\* all wavelength sets k of M_k applied to the sum of the delta-scattering
\* textures of the orders 2..N of set k, each (set, order) counted once.
C3_LuminanceAccumulatorIsQuadrature ==
    (~saveResultAsRadiance /\ pc = "done") =>
        textures[TEX_MULTIPLE_SCATTERING] = SumOfProjectedSets(allWavelengthsSize - 1)

\* A luminance run over two wavelength sets and three orders has finished.
C3_Witness ==
    /\ ~saveResultAsRadiance
    /\ pc = "done"
    /\ allWavelengthsSize = 2
    /\ scatteringOrdersToCompute = 3

\* C4 as stated: the accumulate pass draws without blending in exactly one
\* case, order 2 of wavelength set 0 in luminance mode.
C4_Original_BlendOffOnlyInLuminanceFirstWrite ==
    \A i \in 1..Len(passLog) :
        passLog[i].pass = "accumulateMultipleScattering" =>
            (~passLog[i].blend[0]
                <=> (passLog[i].order = 2 /\ passLog[i].set = 0 /\ ~saveResultAsRadiance))

\* C4 (amended): the accumulate pass draws without blending exactly for
\* order 2 of wavelength set 0 and, in radiance mode, for order 2 of every
\* wavelength set; every other accumulate pass blends additively (GL_ONE, GL_ONE).
C4_BlendOffExactlyOnFirstWriteOfAccumulator ==
    \A i \in 1..Len(passLog) :
        passLog[i].pass = "accumulateMultipleScattering" =>
            /\ ~passLog[i].blend[0]
                 <=> (passLog[i].order = 2 /\ (passLog[i].set = 0 \/ saveResultAsRadiance))
            /\ passLog[i].blendFunc = BLEND_ONE_ONE

\* Order 2 of the second wavelength set has been accumulated in radiance mode
\* (without blending) and order 3 after it (with blending).
C4_Witness ==
    /\ saveResultAsRadiance
    /\ \E i \in 1..Len(passLog) :
          IsPass(i, "accumulateMultipleScattering", 1, 2) /\ ~passLog[i].blend[0]
    /\ \E i \in 1..Len(passLog) :
          IsPass(i, "accumulateMultipleScattering", 1, 3) /\ passLog[i].blend[0]

\* C5: right after computeDirectGroundIrradiance of any wavelength set, the
\* delta-irradiance and the accumulated-irradiance texture both hold exactly
\* the direct ground irradiance of that set.
C5_DirectIrradianceOverwritesBoth ==
    \A i \in 1..Len(passLog) :
        passLog[i].pass = "computeDirectGroundIrradiance" =>
            LET direct == SetToBag({Term("computeDirectGroundIrradiance", passLog[i].set, 1, 0)})
            IN /\ passLog[i].after[TEX_DELTA_IRRADIANCE] = direct
               /\ passLog[i].after[TEX_IRRADIANCE] = direct

\* The direct irradiance of the second set has been computed, after the first
\* set accumulated irradiance up to order 3.
C5_Witness ==
    /\ scatteringOrdersToCompute = 3
    /\ pc = "computeScatteringDensityOrder2"
    /\ texIndex = 1
    /\ passLog[Len(passLog)].pass = "computeDirectGroundIrradiance"

\* The passes of the order-2 phase for the scatterers n+1..Len(list): three per scatterer.
RECURSIVE ExpectedScattererWork(_, _)
ExpectedScattererWork(k, n) ==
    IF n = 0 THEN <<>>
    ELSE ExpectedScattererWork(k, n - 1)
            \o << <<"computeSingleScattering", k, 1>>,
                  <<"computeScatteringDensityOrder2_scatterer", k, 2>>,
                  <<"computeIndirectIrradianceOrder1", k, 2>> >>

\* The passes of the orders 3..o of set k.
RECURSIVE ExpectedHigherOrders(_, _)
ExpectedHigherOrders(k, o) ==
    IF o < 3 THEN <<>>
    ELSE ExpectedHigherOrders(k, o - 1)
            \o << <<"computeScatteringDensity", k, o>>,
                  <<"computeIndirectIrradiance", k, o>>,
                  <<"computeMultipleScatteringFromDensity", k, o>>,
                  <<"accumulateMultipleScattering", k, o>> >>

ExpectedSet(k) ==
    << <<"computeTransmittance", k, 1>>,
       <<"computeDirectGroundIrradiance", k, 1>>,
       <<"computeScatteringDensityOrder2_ground", k, 2>> >>
    \o ExpectedScattererWork(k, Len(scatterers))
    \o << <<"computeMultipleScatteringFromDensity", k, 2>>,
          <<"accumulateMultipleScattering", k, 2>> >>
    \o ExpectedHigherOrders(k, scatteringOrdersToCompute)

\* The passes of the sets 0..k-1.
RECURSIVE ExpectedRun(_)
ExpectedRun(k) ==
    IF k = 0 THEN <<>> ELSE ExpectedRun(k - 1) \o ExpectedSet(k - 1)

\* C6: the passes run in one fixed total order: set after set in increasing
\* index, and in each set transmittance, direct irradiance, ground-only density
\* of order 2, the per-scatterer work, multiple scattering of order 2 and its
\* accumulation, then density, indirect irradiance, multiple scattering and
\* accumulation of each order 3..N; a finished run has run all of them.
C6_PassesRunInFixedTotalOrder ==
    LET expected == ExpectedRun(allWavelengthsSize)
    IN /\ Len(passLog) <= Len(expected)
       /\ \A i \in 1..Len(passLog) :
             <<passLog[i].pass, passLog[i].set, passLog[i].order>> = expected[i]
       /\ pc = "done" => Len(passLog) = Len(expected)

\* A run over two wavelength sets and three orders has finished.
C6_Witness ==
    /\ pc = "done"
    /\ allWavelengthsSize = 2
    /\ scatteringOrdersToCompute = 3
    /\ Len(scatterers) = 2

\* Number of single-scattering passes of set k among the passes 1..i.
SingleScatteringCount(k, i) ==
    Cardinality({j \in 1..i : passLog[j].pass = "computeSingleScattering" /\ passLog[j].set = k})

\* C7: in the order-2 phase of every set the scatterers are processed in the
\* declared order, each once, and for each scatterer single scattering, order-2
\* density and indirect irradiance run consecutively in this order.
C7_ScatterersInDeclaredOrder ==
    \A i \in 1..Len(passLog) :
        LET r == passLog[i]
        IN /\ r.pass = "computeSingleScattering" =>
                /\ SingleScatteringCount(r.set, i) <= Len(scatterers)
                /\ r.scatterer = scatterers[SingleScatteringCount(r.set, i)]
                /\ i > 1
                /\ passLog[i - 1].pass \in {"computeScatteringDensityOrder2_ground",
                                            "computeIndirectIrradianceOrder1"}
                /\ passLog[i - 1].set = r.set
           /\ r.pass = "computeScatteringDensityOrder2_scatterer" =>
                /\ i > 1
                /\ passLog[i - 1].pass = "computeSingleScattering"
                /\ passLog[i - 1].scatterer = r.scatterer
                /\ passLog[i - 1].set = r.set
           /\ r.pass = "computeIndirectIrradianceOrder1" =>
                /\ i > 1
                /\ passLog[i - 1].pass = "computeScatteringDensityOrder2_scatterer"
                /\ passLog[i - 1].scatterer = r.scatterer
                /\ passLog[i - 1].set = r.set
           /\ (r.pass = "computeMultipleScatteringFromDensity" /\ r.order = 2) =>
                /\ SingleScatteringCount(r.set, i) = Len(scatterers)
                /\ passLog[i - 1].pass = "computeIndirectIrradianceOrder1"
                /\ passLog[i - 1].scatterer = scatterers[Len(scatterers)]

\* The order-2 phase of the second set is over, with two declared scatterers.
C7_Witness ==
    /\ Len(scatterers) = 2
    /\ \E i \in 1..Len(passLog) : IsPass(i, "computeMultipleScatteringFromDensity", 1, 2)

FinalFileNames == {"multiple-scattering-wlset", "multiple-scattering-xyzw"}

FinalFileIndices == {f \in 1..Len(files) : files[f].name \in FinalFileNames}

LastAccumulationDone(k) ==
    \E i \in 1..Len(passLog) :
        IsPass(i, "accumulateMultipleScattering", k, scatteringOrdersToCompute)

\* C8: a final multiple-scattering file is written only by the accumulation of
\* the last order and holds the accumulator as that pass left it; in radiance
\* mode there is exactly one per finished wavelength set k, named
\* multiple-scattering-wlset<k>, in luminance mode exactly one, named
\* multiple-scattering-xyzw, written after the last order of the last set.
C8_FinalFileAfterLastOrder ==
    /\ \A f \in FinalFileIndices :
          LET file == files[f]
          IN /\ file.at \in 1..Len(passLog)
             /\ passLog[file.at].pass = "accumulateMultipleScattering"
             /\ passLog[file.at].order = scatteringOrdersToCompute
             /\ file.content = passLog[file.at].after[TEX_MULTIPLE_SCATTERING]
             /\ IF saveResultAsRadiance
                THEN /\ file.name = "multiple-scattering-wlset"
                     /\ file.wlset = passLog[file.at].set
                ELSE /\ file.name = "multiple-scattering-xyzw"
                     /\ passLog[file.at].set = allWavelengthsSize - 1
    /\ saveResultAsRadiance =>
          \A k \in 0..(allWavelengthsSize - 1) :
              Cardinality({f \in FinalFileIndices : files[f].wlset = k})
                  = IF LastAccumulationDone(k) THEN 1 ELSE 0
    /\ ~saveResultAsRadiance =>
          Cardinality(FinalFileIndices)
              = IF LastAccumulationDone(allWavelengthsSize - 1) THEN 1 ELSE 0

\* A radiance run over two sets has finished and has written two final files.
C8_Witness ==
    /\ pc = "done"
    /\ saveResultAsRadiance
    /\ allWavelengthsSize = 2
    /\ Cardinality(FinalFileIndices) = 2

\* C9 as stated: a finished run with the debug dumps off, one scatterer, one
\* wavelength set, 2 orders and radiance mode has written four files, among them
\* the single scattering of the scatterer and the accumulated irradiance; and
\* every finished single-scattering pass has its result in a file.
C9_FourFilesWithSingleScattering ==
    /\ (/\ pc = "done"
        /\ dbg = {}
        /\ Len(scatterers) = 1
        /\ allWavelengthsSize = 1
        /\ scatteringOrdersToCompute = 2
        /\ saveResultAsRadiance)
         => /\ Len(files) = 4
            /\ \E f \in 1..Len(files) : files[f].name = "transmittance-wlset"
            /\ \E f \in 1..Len(files) : files[f].name = "multiple-scattering-wlset"
            /\ \E f \in 1..Len(files) :
                  files[f].content = SetToBag({Term("computeSingleScattering", 0, 1, scatterers[1])})
            /\ \E f \in 1..Len(files) : files[f].content = textures[TEX_IRRADIANCE]
    /\ pc = "done" =>
          \A i \in 1..Len(passLog) :
              passLog[i].pass = "computeSingleScattering" =>
                  \E f \in 1..Len(files) :
                      files[f].content = passLog[i].after[TEX_DELTA_SCATTERING]

\* The last pass among 1..i-1 that rendered into texture t (0 when there is none).
LastWriter(t, i) ==
    IF \E j \in 1..(i - 1) : t \in passLog[j].targets
    THEN CHOOSE j \in 1..(i - 1) :
            /\ t \in passLog[j].targets
            /\ \A j2 \in 1..(i - 1) : t \in passLog[j2].targets => j2 <= j
    ELSE 0

\* C10: every accumulate pass reads a delta-scattering texture that was last
\* written by computeMultipleScatteringFromDensity of the same order and set and
\* holds that pass's output only; no single scattering is in the accumulator.
C10_NoSingleScatteringAccumulated ==
    /\ \A i \in 1..Len(passLog) :
          passLog[i].pass = "accumulateMultipleScattering" =>
              LET w == LastWriter(TEX_DELTA_SCATTERING, i)
              IN /\ TEX_DELTA_SCATTERING \in passLog[i].reads
                 /\ w > 0
                 /\ IsPass(w, "computeMultipleScatteringFromDensity",
                           passLog[i].set, passLog[i].order)
                 /\ Before(i)[TEX_DELTA_SCATTERING]
                      = SetToBag({Term("computeMultipleScatteringFromDensity",
                                       passLog[i].set, passLog[i].order, 0)})
    /\ \A t \in DOMAIN textures[TEX_MULTIPLE_SCATTERING] : t.pass # "computeSingleScattering"

\* Order 2 of a set has been accumulated, after the single scattering of two
\* scatterers went through the delta-scattering texture.
C10_Witness ==
    /\ Len(scatterers) = 2
    /\ \E i \in 1..Len(passLog) :
          /\ IsPass(i, "accumulateMultipleScattering", 0, 2)
          /\ \E j \in 1..(i - 1) :
                /\ passLog[j].pass = "computeSingleScattering"
                /\ TEX_DELTA_SCATTERING \in passLog[j].targets

\* The weights the claim gives for set k of n sets, in halves.
ClaimedWeights(n, k) ==
    IF n = 1 THEN <<1, 2, 2, 1>>
    ELSE IF k = 0 THEN <<1, 2, 2, 2>>
    ELSE IF k = n - 1 THEN <<2, 2, 2, 1>>
    ELSE <<2, 2, 2, 2>>

\* The weights that the accumulate passes of set k applied, read off the accumulator.
WeightsUsed(k) ==
    (CHOOSE t \in DOMAIN textures[TEX_MULTIPLE_SCATTERING] : t.lum.set = k).lum.weights

\* The weights of the sets 0..k, one after the other: the whole wavelength grid.
RECURSIVE GridWeights(_)
GridWeights(k) ==
    IF k < 0 THEN <<>> ELSE GridWeights(k - 1) \o WeightsUsed(k)

\* C11: in luminance mode every accumulate pass of set k of N sets applies the
\* trapezoid weights (0.5,1,1,0.5) if N=1, (0.5,1,1,1) if k=0, (1,1,1,0.5) if
\* k=N-1 and (1,1,1,1) otherwise; over the grid of 4N wavelengths of a finished
\* run exactly the first and the last weight are 0.5, all others 1.
C11_TrapezoidWeights ==
    /\ \A i \in 1..Len(passLog) :
          (passLog[i].pass = "accumulateMultipleScattering" /\ ~saveResultAsRadiance) =>
              /\ \E t \in DOMAIN passLog[i].after[TEX_MULTIPLE_SCATTERING] :
                    t.lum.set = passLog[i].set /\ t.order = passLog[i].order
              /\ \A t \in DOMAIN passLog[i].after[TEX_MULTIPLE_SCATTERING] :
                    t.lum.set = passLog[i].set =>
                        t.lum.weights = ClaimedWeights(allWavelengthsSize, passLog[i].set)
    /\ (pc = "done" /\ ~saveResultAsRadiance) =>
          LET grid == GridWeights(allWavelengthsSize - 1)
          IN /\ Len(grid) = 4 * allWavelengthsSize
             /\ \A j \in 1..Len(grid) :
                   grid[j] = IF j = 1 \/ j = Len(grid) THEN 1 ELSE 2

\* A luminance run over four wavelength sets (two of them interior) has finished.
C11_Witness ==
    /\ pc = "done"
    /\ ~saveResultAsRadiance
    /\ allWavelengthsSize = 4
    /\ WeightsUsed(1) = <<2, 2, 2, 2>>

\* The cache entries of virtual files that the last compileShaderProgram reused.
ReusedVirtualEntries ==
    (lastCompile.names \cap DOMAIN lastCompile.cache) \cap VirtualFileNames

\* The current content of a virtual source file: what virtualSourceFiles
\* holds under the name, and the file of the shader directory while nothing
\* has been written under it.
CurrentContent(table, name) ==
    IF name \in DOMAIN table THEN table[name] ELSE DiskFile(name)

\* C12: at every call of compileShaderProgram each cache entry of a virtual
\* source file that the call reuses was compiled from the current content of
\* that file, and no file written since the previous call still has a cache
\* entry: every write came with the eviction of the entry.
C12_ReusedEntriesAreCurrent ==
    /\ \A n \in ReusedVirtualEntries :
          lastCompile.cache[n] = CurrentContent(lastCompile.table, n)
    /\ lastCompile.written \cap DOMAIN lastCompile.cache = {}

\* The files whose scan the scan of file f starts: the companions of the
\* headers f includes, but for internal shaders and f itself; none if f is
\* not in the shader directory.
Descends(input, f) ==
    IF f \in input.missing THEN {}
    ELSE {h \in {input.includes[f][i] : i \in DOMAIN input.includes[f]} :
             h # CONSTANTS_HEADER /\ h \notin input.internalShaders /\ h # f}

\* The files reached from the main file by d nested scans.
RECURSIVE ScannedAtDepth(_, _)
ScannedAtDepth(input, d) ==
    IF d = 0 THEN {0}
    ELSE UNION {Descends(input, f) : f \in ScannedAtDepth(input, d - 1)}

\* The files reached from the files of S by any number of nested scans.
RECURSIVE ScanClosure(_, _)
ScanClosure(input, S) ==
    LET T == S \cup UNION {Descends(input, f) : f \in S}
    IN IF T = S THEN S ELSE ScanClosure(input, T)

\* The companions of all headers included by the files the scan reaches.
Companions(input) ==
    UNION {{input.includes[f][i] : i \in DOMAIN input.includes[f]} \ {CONSTANTS_HEADER} :
              f \in ScanClosure(input, {0})}

\* C13: the scan of the include lines returns exactly when no chain of
\* nested scans is longer than 50, and then returns the set of the companion
\* shaders of all headers reached; it fails exactly when a scan at recursion
\* depth 51 is started. A chain that needs depth 50 succeeds, one that needs
\* depth 51 fails.
C13_ScanFailsExactlyBeyondDepth50 ==
    /\ Len(scanStack) <= maxRecursionDepth + 1
    /\ pc = "scanned" =>
        /\ scanResult.ok <=> ScannedAtDepth(scanInput, maxRecursionDepth + 1) = {}
        /\ scanResult.ok => scanResult.names = Companions(scanInput)
        /\ scanInput = Chain(maxRecursionDepth) => scanResult.ok
        /\ scanInput = Chain(maxRecursionDepth + 1) => ~scanResult.ok

\* Can every file whose scan is started be opened?
ScannedFilesOpened(input) == ScanClosure(input, {0}) \cap input.missing = {}

\* When every file whose scan is started can be opened, the scan returns
\* exactly when no scan at recursion depth 51 is started, and returns the
\* companions of all headers reached; otherwise it throws.
ScanReturnsUnlessTooDeep ==
    /\ Len(scanStack) <= maxRecursionDepth + 1
    /\ pc = "scanned" =>
        /\ scanResult.ok <=> /\ ScannedAtDepth(scanInput, maxRecursionDepth + 1) = {}
                              /\ ScannedFilesOpened(scanInput)
        /\ scanResult.ok => scanResult.names = Companions(scanInput)
        /\ scanInput = Chain(maxRecursionDepth) => scanResult.ok
        /\ scanInput = Chain(maxRecursionDepth + 1) => ~scanResult.ok

\* The pairs of distinct files that the scan reaches and that include each
\* other's header.
TwoCycles(input) ==
    {<<a, b>> \in ScanClosure(input, {0}) \X ScanClosure(input, {0}) :
        a # b /\ b \in Descends(input, a) /\ a \in Descends(input, b)}

\* C14 as stated: when the includes form a cycle a -> b -> a the scan fails
\* with a message that names both files of the cycle.
C14_Original_CycleMessageNamesBothFiles ==
    pc = "scanned" =>
        \A c \in TwoCycles(scanInput) :
            ~scanResult.ok /\ {c[1], c[2]} \subseteq scanResult.message.files

\* C14: when the includes form a cycle a -> b -> a the scan fails; unless a
\* file outside the cycle cannot be opened, it fails by exceeding the
\* recursion depth, and what it prints is "Include recursion depth exceeded
\* 50", which names no file.
C14_CycleEndsInDepthError ==
    (pc = "scanned" /\ TwoCycles(scanInput) # {}) =>
        /\ ~scanResult.ok
        /\ ScannedFilesOpened(scanInput) =>
              /\ scanResult.message.text = "Include recursion depth exceeded"
              /\ scanResult.message.number = maxRecursionDepth
              /\ scanResult.message.files = {}

\* The main file includes the header of file 1, file 1 that of file 2 and
\* file 2 that of file 1; the scan has ended.
C14_Witness ==
    /\ pc = "scanned"
    /\ scanInput.includes = [f \in GraphFiles |->
                                IF f = 0 THEN <<CONSTANTS_HEADER, 1>>
                                ELSE IF f = 1 THEN <<2>> ELSE <<1>>]
    /\ scanInput.internalShaders = {}
    /\ scanInput.missing = {}
    /\ ~scanResult.ok

\* The three 3-D textures.
Textures3D == {TEX_DELTA_SCATTERING, TEX_DELTA_SCATTERING_DENSITY, TEX_MULTIPLE_SCATTERING}

\* The 3-D textures pass i renders into or samples.
InUse3D(i) == (passLog[i].targets \cup passLog[i].reads) \cap Textures3D

\* C15 as stated: in every pass at most two 3-D textures are in use, and they
\* are the density texture together with either the delta-scattering texture
\* or the accumulator.
C15_Original_PairAlwaysHasDensity ==
    \A i \in 1..Len(passLog) :
        /\ Cardinality(InUse3D(i)) <= 2
        /\ \/ InUse3D(i) \subseteq {TEX_DELTA_SCATTERING_DENSITY, TEX_DELTA_SCATTERING}
           \/ InUse3D(i) \subseteq {TEX_DELTA_SCATTERING_DENSITY, TEX_MULTIPLE_SCATTERING}

\* C15: in every pass at most two 3-D textures are in use. The accumulate
\* pass uses the delta-scattering texture (sampled) and the accumulator
\* (rendered into); every other pass uses only the delta-scattering texture
\* and the density texture, and no pass uses the density texture together
\* with the accumulator.
C15_AtMostTwo3DTexturesInUse ==
    \A i \in 1..Len(passLog) :
        /\ Cardinality(InUse3D(i)) <= 2
        /\ IF passLog[i].pass = "accumulateMultipleScattering"
           THEN InUse3D(i) = {TEX_DELTA_SCATTERING, TEX_MULTIPLE_SCATTERING}
           ELSE InUse3D(i) \subseteq {TEX_DELTA_SCATTERING, TEX_DELTA_SCATTERING_DENSITY}

\* An accumulate pass and a density pass of order 3 have run.
C15_Witness ==
    /\ \E i \in 1..Len(passLog) : passLog[i].pass = "accumulateMultipleScattering"
    /\ \E i \in 1..Len(passLog) :
          /\ passLog[i].pass = "computeScatteringDensity"
          /\ InUse3D(i) = {TEX_DELTA_SCATTERING, TEX_DELTA_SCATTERING_DENSITY}

\* C16: in no pass is a texture both a render target of the bound framebuffer
\* and a sampler input set for the program that draws, and the
\* direct-irradiance pass renders into two distinct textures.
C16_NoTextureReadAndWritten ==
    \A i \in 1..Len(passLog) :
        /\ passLog[i].targets \cap passLog[i].reads = {}
        /\ passLog[i].targets # {}
        /\ passLog[i].pass = "computeDirectGroundIrradiance" =>
              /\ Cardinality(passLog[i].targets) = 2
              /\ passLog[i].targets = {TEX_DELTA_IRRADIANCE, TEX_IRRADIANCE}

\* The direct-irradiance pass has run, and a multiple-scattering pass that
\* samples the density texture while it renders into the delta-scattering texture.
C16_Witness ==
    /\ \E i \in 1..Len(passLog) : passLog[i].pass = "computeDirectGroundIrradiance"
    /\ \E i \in 1..Len(passLog) :
          /\ passLog[i].pass = "computeMultipleScatteringFromDensity"
          /\ TEX_DELTA_SCATTERING \in passLog[i].targets
          /\ TEX_DELTA_SCATTERING_DENSITY \in passLog[i].reads

\* The positions of the calls of the given name among the calls of a step.
CallsOf(calls, name) == {i \in DOMAIN calls : calls[i].call = name}

\* C17 as stated: after every glFramebufferTexture the completeness of the
\* framebuffer is checked before the first draw into that framebuffer.
C17_EveryAttachmentIsChecked ==
    \A a \in CallsOf(glCalls, "glFramebufferTexture") :
        \A d \in CallsOf(glCalls, "renderQuad") :
            (a < d /\ glCalls[d].fbo = glCalls[a].fbo) =>
                \E c \in CallsOf(glCalls, "checkFramebufferStatus") :
                    a < c /\ c < d /\ glCalls[c].fbo = glCalls[a].fbo

\* The passes that render into a 3-D texture, layer by layer.
Passes3D ==
    {"computeSingleScattering", "computeScatteringDensityOrder2_ground",
     "computeScatteringDensityOrder2_scatterer", "computeScatteringDensity",
     "computeMultipleScatteringFromDensity", "accumulateMultipleScattering"}

\* The calls of a step that ran the pass: every draw is directly followed by
\* glFinish, the saves come after all draws, a 3-D pass draws the layers
\* 0..depth-1 once each and in this order, any other pass draws once.
PassIsFinished(pass, calls, depth) ==
    LET draws == CallsOf(calls, "renderQuad")
    IN /\ draws # {}
       /\ \A d \in draws : d < Len(calls) /\ calls[d + 1].call = "glFinish"
       /\ \A sv \in CallsOf(calls, "saveTexture") : \A d \in draws : d + 1 < sv
       /\ IF pass \in Passes3D
          THEN /\ Cardinality(draws) = depth
               /\ \A d \in draws : calls[d].layer = Cardinality({e \in draws : e < d})
          ELSE Cardinality(draws) = 1

\* C18: every pass ends with glFinish before the next pass starts or a
\* texture is saved; in a 3-D pass glFinish follows the draw of each layer
\* before the next layer is drawn, and the number of layer draws is the depth
\* of the scattering texture. A step that runs no pass draws nothing.
C18_FinishAfterEveryDraw ==
    [][IF passLog' # passLog
       THEN PassIsFinished(passLog'[Len(passLog')].pass, glCalls', scatTexDepth)
       ELSE CallsOf(glCalls', "renderQuad") = {}]_vars

\* A density pass of order 3 has drawn all layers of the deepest texture
\* and then saved the density texture.
C18_Witness ==
    /\ scatTexDepth = MaxLayers
    /\ passLog # <<>>
    /\ passLog[Len(passLog)].pass = "computeScatteringDensity"
    /\ Cardinality(CallsOf(glCalls, "renderQuad")) = MaxLayers
    /\ CallsOf(glCalls, "saveTexture") # {}

\* C19: an exception thrown anywhere in the run (a shader that cannot be
\* opened, an include, compile or link error, anything else) ends the run at
\* once: no pass runs and no file is written after it, nothing is retried,
\* and the exit status is not 0. The exit status is 0 exactly when main()
\* got to its end, which it does only if nothing was thrown.
C19_ErrorsStopTheRun ==
    /\ raised.kind # "none" =>
          /\ pc = "exited"
          /\ exitStatus \notin {0, RUNNING}
          /\ Len(passLog) = raised.passes
          /\ Len(files) = raised.files
    /\ pc = "exited" => exitStatus \notin {0, RUNNING}
    /\ pc = "done" => exitStatus = 0 /\ raised = NotRaised
    /\ pc \notin {"done", "exited"} => exitStatus = RUNNING

\* An exception derived from std::exception was thrown in the accumulate
\* pass of order 3, after passes had run and files had been written.
C19_Witness ==
    /\ raised.kind = "std::exception"
    /\ raised.at = "accumulateMultipleScattering"
    /\ scatteringOrder = 3
    /\ raised.passes > 0
    /\ raised.files > 0
    /\ exitStatus = 111

\* C20: when handleCmdLine fails, the run ends before any GPU work: no OpenGL
\* context has been created, init() has not been called, no shader has been
\* compiled, no pass has run and no file has been written.
C20_ConfigErrorBeforeGpuWork ==
    raised.at = "handleCmdLine" =>
        /\ pc = "exited"
        /\ exitStatus \notin {0, RUNNING}
        /\ ~glContext
        /\ ~initCalled
        /\ DOMAIN allShaders = {}
        /\ lastCompile = NoCompile
        /\ passLog = <<>>
        /\ files = <<>>

\* handleCmdLine has thrown MustQuit and the process has exited with status 1.
C20_Witness ==
    /\ raised.at = "handleCmdLine"
    /\ raised.kind = "MustQuit"
    /\ exitStatus = 1

\* ---------------------------------------------------------------------------
\* C21: token substitution in the scattering-density kernel

DensityPasses ==
    {"computeScatteringDensityOrder2_ground", "computeScatteringDensityOrder2_scatterer",
     "computeScatteringDensity"}

GroundPassesOfSet(k) ==
    {i \in DOMAIN passLog : /\ passLog[i].pass = "computeScatteringDensityOrder2_ground"
                            /\ passLog[i].set = k}

\* C21: the shader a density pass has just compiled comes from the kernel's
\* text with RADIATION_IS_FROM_GROUND_ONLY replaced by a literal boolean and
\* SCATTERING_ORDER by the order of the pass; the boolean is true in the
\* ground pass and false in every other density pass, and a set has one
\* ground pass, which comes before its other density passes.
C21_DensityKernelTokens ==
    /\ (passLog # <<>> /\ passLog[Len(passLog)].pass \in DensityPasses) =>
           LET p == passLog[Len(passLog)]
           IN /\ COMPUTE_SCATTERING_DENSITY_FILENAME \in DOMAIN allShaders
              /\ allShaders[COMPUTE_SCATTERING_DENSITY_FILENAME].text =
                     << IF p.pass = "computeScatteringDensityOrder2_ground"
                        THEN "true" ELSE "false",
                        ToString(p.order) >>
              /\ lastCompile.main = COMPUTE_SCATTERING_DENSITY_FILENAME
    /\ \A i \in DOMAIN passLog :
           passLog[i].pass \in DensityPasses =>
               /\ Cardinality(GroundPassesOfSet(passLog[i].set)) = 1
               /\ \A j \in GroundPassesOfSet(passLog[i].set) : j <= i
               /\ passLog[i].pass = "computeScatteringDensityOrder2_ground" => passLog[i].order = 2
               /\ passLog[i].pass = "computeScatteringDensityOrder2_scatterer" => passLog[i].order = 2
               /\ passLog[i].pass = "computeScatteringDensity" => passLog[i].order >= 3

\* ---------------------------------------------------------------------------
\* C22: the orders of a set are completed one by one, and the run ends

\* The accumulation passes of set k, in the order they ran: each completes
\* an order.
CompletedOrders(k) ==
    SelectSeq(passLog, LAMBDA p : p.pass = "accumulateMultipleScattering" /\ p.set = k)

PerScattererPasses ==
    {"computeSingleScattering", "computeScatteringDensityOrder2_scatterer",
     "computeIndirectIrradianceOrder1"}

\* The first-order parts of set k (transmittance and direct irradiance) are done
\* before pass i.
Order1DoneBefore(k, i) ==
    \E a, b \in 1..(i - 1) :
        /\ passLog[a].pass = "computeTransmittance" /\ passLog[a].set = k
        /\ passLog[b].pass = "computeDirectGroundIrradiance" /\ passLog[b].set = k

OrdersInSequence ==
    /\ \A k \in 0..(allWavelengthsSize - 1) :
           LET acc == CompletedOrders(k)
           IN /\ \A n \in DOMAIN acc : acc[n].order = n + 1
              /\ Len(acc) <= scatteringOrdersToCompute - 1
              /\ (k < texIndex \/ pc = "done") => Len(acc) = scatteringOrdersToCompute - 1
    /\ \A i \in DOMAIN passLog :
           /\ passLog[i].pass = "accumulateMultipleScattering" =>
                  Order1DoneBefore(passLog[i].set, i)
           /\ passLog[i].pass \in PerScattererPasses =>
                  /\ Order1DoneBefore(passLog[i].set, i)
                  /\ \A j \in 1..i :
                         ~(/\ passLog[j].pass = "accumulateMultipleScattering"
                           /\ passLog[j].set = passLog[i].set)
    /\ \A f \in DOMAIN files :
           files[f].name \in FinalFileNames =>
               /\ passLog[files[f].at].pass = "accumulateMultipleScattering"
               /\ passLog[files[f].at].order = scatteringOrdersToCompute
               /\ Len(CompletedOrders(passLog[files[f].at].set)) = scatteringOrdersToCompute - 1

\* C22: a run without errors ends, and on the way the accumulation passes
\* of each wavelength set complete the orders 2, 3, ..., scatteringOrdersToCompute
\* in turn after the first-order parts, none skipped and none repeated; the
\* final output is written by the pass that completes the last order; the
\* per-scatterer passes of a set all run between its first-order parts and
\* the completion of order 2.
C22_OrdersAdvanceAndRunEnds ==
    /\ OrdersInSequence
    /\ [][OrdersInSequence']_vars
    /\ <>(pc = "done")

\* A run over two sets, two scatterers and four orders has ended.
C22_Witness ==
    /\ pc = "done"
    /\ allWavelengthsSize = 2
    /\ Len(scatterers) = 2
    /\ scatteringOrdersToCompute = 4
    /\ Len(CompletedOrders(1)) = 3
    /\ \E f \in DOMAIN files : files[f].name \in FinalFileNames

\* ---------------------------------------------------------------------------
\* C23: the shader cache, by file name

\* How often the last compileShaderProgram call compiled the file.
TimesCompiled(name) ==
    Cardinality({i \in DOMAIN lastCompile.compiled : lastCompile.compiled[i] = name})

\* The shaders the last call added to its program under the name.
AddedAs(name) ==
    {lastCompile.program[i].shader :
        i \in {j \in DOMAIN lastCompile.program : lastCompile.program[j].name = name}}

\* C23: in every compileShaderProgram call, a file whose shader is in the
\* cache when the call asks for it is not compiled, the program gets the
\* shader the cache held and the cache keeps it; a file that is not in the
\* cache is compiled exactly once, from its current source, and the cache
\* holds the result under its name afterwards; nothing else is compiled.
C23_CacheByFileName ==
    /\ \A n \in lastCompile.names \cap DOMAIN lastCompile.cache :
           /\ TimesCompiled(n) = 0
           /\ AddedAs(n) = {lastCompile.cache[n]}
           /\ lastCompile.stored[n] = lastCompile.cache[n]
    /\ \A n \in lastCompile.names \ DOMAIN lastCompile.cache :
           /\ TimesCompiled(n) = 1
           /\ n \in DOMAIN lastCompile.stored
           /\ lastCompile.stored[n] = compileShader(shaderFiles, n)
           /\ AddedAs(n) = {lastCompile.stored[n]}
    /\ \A i \in DOMAIN lastCompile.compiled : lastCompile.compiled[i] \in lastCompile.names
    /\ \A n \in DOMAIN lastCompile.cache \ lastCompile.names :
           lastCompile.stored[n] = lastCompile.cache[n]

\* The order-3 density pass has asked for the vertex stage, which an earlier
\* pass of the set had compiled, and for its own kernel, evicted just before:
\* the first is reused, the second compiled.
C23_Witness ==
    /\ lastCompile.main = COMPUTE_SCATTERING_DENSITY_FILENAME
    /\ scatteringOrder = 3
    /\ "shader.vert" \in DOMAIN lastCompile.cache
    /\ TimesCompiled("shader.vert") = 0
    /\ TimesCompiled(COMPUTE_SCATTERING_DENSITY_FILENAME) = 1
    /\ COMPUTE_SCATTERING_DENSITY_FILENAME \notin DOMAIN lastCompile.cache

\* ---------------------------------------------------------------------------
\* C24: the numbered listing of a shader that failed to compile

NonSpace(line) == SelectSeq(line, LAMBDA t : t # " ")

\* The line is a #line directive: "#", "line" and a number, whitespace apart.
IsLineDirective(line) ==
    /\ Len(NonSpace(line)) >= 3
    /\ NonSpace(line)[1] = "#"
    /\ NonSpace(line)[2] = "line"
    /\ IsDigits(NonSpace(line)[3])

DirectiveNumber(line) == toInt(NonSpace(line)[3])

\* C24: the lines printed are the lines of the assembled source, in order;
\* the first has number 1, a line that follows a directive "#line N" has
\* number N, every other line one more than the line before it; when the run
\* aborts with MustQuit the whole source has been printed; a shader that
\* compiles is not listed.
C24_ListingHonoursLineDirectives ==
    /\ Len(listed) <= Len(shaderSource)
    /\ \A i \in DOMAIN listed :
           /\ listed[i].line = shaderSource[i]
           /\ listed[i].number =
                  IF i = 1 THEN 1
                  ELSE IF IsLineDirective(shaderSource[i - 1])
                       THEN DirectiveNumber(shaderSource[i - 1])
                       ELSE listed[i - 1].number + 1
    /\ raised.at = "compileShader" =>
           /\ raised.kind = "MustQuit"
           /\ Len(listed) = Len(shaderSource)
           /\ pc = "exited"
           /\ exitStatus = 1
    /\ pc = "compiled" => listed = <<>> /\ raised = NotRaised

\* A source of a directive and two plain lines has been listed and the run
\* has aborted: the plain lines carry the directive's number and the next.
C24_Witness ==
    /\ raised.at = "compileShader"
    /\ Len(shaderSource) = 3
    /\ shaderSource[1] = GeneratedDirective(MaxDirectiveNumber)
    /\ listed[1].number = 1
    /\ listed[2].number = MaxDirectiveNumber
    /\ listed[3].number = MaxDirectiveNumber + 1

\* ---------------------------------------------------------------------------
\* C25: delta irradiance of the order-2 phase

\* The position of a scatterer in the declared list.
DeclaredAt(scat) == CHOOSE j \in DOMAIN scatterers : scatterers[j] = scat

IndirectOrder1Term(k, scat) ==
    SetToBag({Term("computeIndirectIrradianceOrder1", k, 2, scat)})

\* The contributions of the first j declared scatterers to the indirect
\* irradiance of set k.
RECURSIVE SumOfIndirectOrder1(_, _)
SumOfIndirectOrder1(k, j) ==
    IF j = 0 THEN EmptyBag
    ELSE SumOfIndirectOrder1(k, j - 1) (+) IndirectOrder1Term(k, scatterers[j])

\* C25: in the order-2 phase the indirect-irradiance pass of the first
\* declared scatterer draws into delta irradiance with blending off and the
\* pass of every later scatterer with blending on, and all of them draw into
\* accumulated irradiance with blending on; after the pass of the j-th
\* scatterer delta irradiance is the sum of the contributions of the
\* scatterers 1..j, with no direct irradiance in it, and accumulated
\* irradiance has grown by the contribution of the j-th.
C25_DeltaIrradianceOfOrder2 ==
    \A i \in DOMAIN passLog :
        passLog[i].pass = "computeIndirectIrradianceOrder1" =>
            LET k == passLog[i].set
                j == DeclaredAt(passLog[i].scatterer)
            IN /\ i > 1
               /\ passLog[i].blend[0] = (j # 1)
               /\ passLog[i].blend[1]
               /\ passLog[i].blendFunc = BLEND_ONE_ONE
               /\ passLog[i].after[TEX_DELTA_IRRADIANCE] = SumOfIndirectOrder1(k, j)
               /\ passLog[i].after[TEX_IRRADIANCE] =
                      passLog[i - 1].after[TEX_IRRADIANCE]
                          (+) IndirectOrder1Term(k, passLog[i].scatterer)
               /\ \A t \in BagToSet(passLog[i].after[TEX_DELTA_IRRADIANCE]) :
                      t.pass # "computeDirectGroundIrradiance"

\* The indirect-irradiance pass of the second of two scatterers has run in
\* the second set: delta irradiance holds both contributions.
C25_Witness ==
    /\ Len(scatterers) = 2
    /\ texIndex = 1
    /\ passLog # <<>>
    /\ passLog[Len(passLog)].pass = "computeIndirectIrradianceOrder1"
    /\ passLog[Len(passLog)].scatterer = scatterers[2]
    /\ textures[TEX_DELTA_IRRADIANCE] = SumOfIndirectOrder1(1, 2)
    /\ BagCardinality(textures[TEX_DELTA_IRRADIANCE]) = 2

\* ---------------------------------------------------------------------------
\* C26: the scattering density of order 2

GroundDensityTerm(k) ==
    SetToBag({Term("computeScatteringDensityOrder2_ground", k, 2, 0)})

ScattererDensityTerm(k, scat) ==
    SetToBag({Term("computeScatteringDensityOrder2_scatterer", k, 2, scat)})

\* The ground-only density of set k and the contributions of the first j
\* declared scatterers.
RECURSIVE DensityOrder2UpTo(_, _)
DensityOrder2UpTo(k, j) ==
    IF j = 0 THEN GroundDensityTerm(k)
    ELSE DensityOrder2UpTo(k, j - 1) (+) ScattererDensityTerm(k, scatterers[j])

\* C26: the ground pass of the order-2 phase draws into the density texture
\* with blending off and leaves the ground-only density there; the density
\* pass of every scatterer, the first included, draws with additive blending
\* on; so after the pass of the j-th scatterer the texture is the ground-only
\* density plus the contributions of the scatterers 1..j, and when the phase
\* is over (the order-2 scattering is computed from it) it is the ground-only
\* density plus the contribution of every declared scatterer.
C26_DensityOrder2IsGroundPlusScatterers ==
    \A i \in DOMAIN passLog :
        LET p == passLog[i]
        IN /\ p.pass = "computeScatteringDensityOrder2_ground" =>
                  /\ ~p.blend[0]
                  /\ p.targets = {TEX_DELTA_SCATTERING_DENSITY}
                  /\ p.after[TEX_DELTA_SCATTERING_DENSITY] = GroundDensityTerm(p.set)
           /\ p.pass = "computeScatteringDensityOrder2_scatterer" =>
                  /\ p.blend[0]
                  /\ p.blendFunc = BLEND_ONE_ONE
                  /\ p.targets = {TEX_DELTA_SCATTERING_DENSITY}
                  /\ p.after[TEX_DELTA_SCATTERING_DENSITY]
                         = DensityOrder2UpTo(p.set, DeclaredAt(p.scatterer))
           /\ (p.pass = "computeMultipleScatteringFromDensity" /\ p.order = 2) =>
                  /\ i > 1
                  /\ passLog[i - 1].after[TEX_DELTA_SCATTERING_DENSITY]
                         = DensityOrder2UpTo(p.set, Len(scatterers))

\* The order-2 phase of the second set is over with two scatterers declared:
\* the density texture holds three contributions.
C26_Witness ==
    /\ Len(scatterers) = 2
    /\ texIndex = 1
    /\ pc = "computeMultipleScatteringFromDensity"
    /\ scatteringOrder = 2
    /\ textures[TEX_DELTA_SCATTERING_DENSITY] = DensityOrder2UpTo(1, 2)
    /\ BagCardinality(textures[TEX_DELTA_SCATTERING_DENSITY]) = 3

\* ---------------------------------------------------------------------------
\* C27: the three views of the current scatterer agree

\* The virtual source of the name held the given text when the last program
\* was compiled.
WrittenAs(name, src) ==
    /\ name \in DOMAIN lastCompile.table
    /\ lastCompile.table[name] = src

\* C27: when the order-2 density pass or the indirect-irradiance pass of
\* scatterer s has just compiled its program and drawn, in set k, the
\* delta-scattering texture it read holds the single scattering of s for
\* set k and nothing else, the densities virtual source is the one of s at
\* the wavelengths of set k, and the phase-functions virtual source
\* dispatches currentPhaseFunction to s; when the ground-only density pass
\* has just run, the phase-functions virtual source is the stub.
C27_CurrentScattererAgrees ==
    passLog # <<>> =>
        LET p == passLog[Len(passLog)]
        IN /\ p.pass \in {"computeScatteringDensityOrder2_scatterer",
                          "computeIndirectIrradianceOrder1"} =>
                  /\ TEX_DELTA_SCATTERING \in p.reads
                  /\ p.after[TEX_DELTA_SCATTERING]
                         = SetToBag({Term("computeSingleScattering", p.set, 1, p.scatterer)})
                  /\ p.scatterer \in {scatterers[j] : j \in DOMAIN scatterers}
                  /\ p.set = texIndex
                  /\ WrittenAs(DENSITIES_SHADER_FILENAME,
                                [gen |-> "makeScattererDensityFunctionsSrc", set |-> p.set,
                                 order |-> 0, scatterer |-> p.scatterer, ground |-> "",
                                 text |-> <<>>])
                  /\ lastCompile.table[PHASE_FUNCTIONS_SHADER_FILENAME].gen
                         = "makePhaseFunctionsSrc"
                  /\ lastCompile.table[PHASE_FUNCTIONS_SHADER_FILENAME].scatterer = p.scatterer
           /\ p.pass = "computeScatteringDensityOrder2_ground" =>
                  /\ lastCompile.table[PHASE_FUNCTIONS_SHADER_FILENAME].gen
                         = "makePhaseFunctionsSrc"
                  /\ lastCompile.table[PHASE_FUNCTIONS_SHADER_FILENAME].scatterer = -1

\* The indirect-irradiance pass of the second declared scatterer has just
\* run in the second set.
C27_Witness ==
    /\ Len(scatterers) = 2
    /\ passLog # <<>>
    /\ passLog[Len(passLog)].pass = "computeIndirectIrradianceOrder1"
    /\ passLog[Len(passLog)].set = 1
    /\ passLog[Len(passLog)].scatterer = scatterers[2]
    /\ lastCompile.table[DENSITIES_SHADER_FILENAME].scatterer = scatterers[2]
    /\ lastCompile.table[DENSITIES_SHADER_FILENAME].set = 1
    /\ lastCompile.table[PHASE_FUNCTIONS_SHADER_FILENAME].scatterer = scatterers[2]

\* ---------------------------------------------------------------------------
\* C28: the blend state and the framebuffer binding between the passes

\* The positions at which a pass function is entered, the per-scatterer
\* indirect-irradiance pass apart.
PassEntries ==
    {"computeTransmittance", "computeDirectGroundIrradiance", "computeScatteringDensityOrder2",
     "computeMultipleScatteringFromDensity", "accumulateMultipleScattering",
     "computeScatteringDensity", "computeIndirectIrradiance"}

\* computeSingleScattering is entered at the head of the scatterer loop.
AtPassEntry ==
    \/ pc \in PassEntries
    \/ pc = "order2_for" /\ scattererIndex < Len(scatterers)

\* The passes whose function has returned when they are the last of the log
\* (the density draws of computeScatteringDensityOrder2 are inside it).
ReturningPasses ==
    {"computeTransmittance", "computeDirectGroundIrradiance", "computeSingleScattering",
     "computeIndirectIrradianceOrder1", "computeScatteringDensity",
     "computeIndirectIrradiance", "accumulateMultipleScattering"}

\* A pass function has just returned; computeScatteringDensityOrder2 has
\* returned when the order-2 scattering is about to be computed.
AtPassExit ==
    \/ passLog # <<>> /\ passLog[Len(passLog)].pass \in ReturningPasses
    \/ pc = "computeMultipleScatteringFromDensity" /\ scatteringOrder = 2

BlendOffAtEntriesAndExits ==
    /\ AtPassEntry => blend = BlendAll(FALSE)
    /\ AtPassExit => blend = BlendAll(FALSE) /\ boundFbo = FBO_DEFAULT

\* C28 as stated: blending is off for all draw buffers at the entry and at
\* the exit of every pass function, computeIndirectIrradianceOrder1 included,
\* and the default framebuffer is bound at the exit.
C28_Original_BlendOffAtEveryEntry ==
    /\ BlendOffAtEntriesAndExits
    /\ pc = "computeIndirectIrradianceOrder1" => blend = BlendAll(FALSE)

\* C28: blending is off for all draw buffers at the entry and at the exit of
\* every pass function, and the default framebuffer is bound at the exit,
\* with one exception: computeIndirectIrradianceOrder1 is entered with
\* blending on for all draw buffers, as the density draw before it left it;
\* the blend state it draws with is the one it sets itself, and it returns
\* with blending off.
C28_BlendOffBetweenPasses ==
    /\ BlendOffAtEntriesAndExits
    /\ pc = "computeIndirectIrradianceOrder1" =>
           /\ blend = BlendAll(TRUE)
           /\ passLog[Len(passLog)].pass = "computeScatteringDensityOrder2_scatterer"
    /\ \A i \in DOMAIN passLog :
           passLog[i].pass = "computeIndirectIrradianceOrder1" =>
               /\ passLog[i].blend[1]
               /\ passLog[i].blend[0] = (DeclaredAt(passLog[i].scatterer) # 1)

\* computeIndirectIrradianceOrder1 is about to be entered for the second
\* scatterer, with blending on.
C28_Witness ==
    /\ pc = "computeIndirectIrradianceOrder1"
    /\ scattererIndex = 1
    /\ blend = BlendAll(TRUE)
    /\ boundFbo = FBO_MULTIPLE_SCATTERING

\* ---------------------------------------------------------------------------
\* C29: transmittance and delta scattering are always overwritten

ReplacedTextures == {TEX_TRANSMITTANCE, TEX_DELTA_SCATTERING}

\* What the shader of pass i has output.
OutputOf(i) ==
    SetToBag({Term(passLog[i].pass, passLog[i].set, passLog[i].order, passLog[i].scatterer)})

\* C29: every pass that draws into the transmittance texture or into the
\* delta-scattering texture (transmittance, single scattering of a scatterer,
\* multiple scattering of an order) draws with blending off, so the texture
\* holds the output of that pass alone afterwards; the single scattering of
\* a scatterer after the first follows a density pass that drew with
\* blending on, and holds nothing of the scatterer before it.
C29_TransmittanceAndDeltaScatteringReplaced ==
    \A i \in DOMAIN passLog :
        /\ passLog[i].targets \cap ReplacedTextures # {} =>
               /\ passLog[i].pass \in {"computeTransmittance", "computeSingleScattering",
                                       "computeMultipleScatteringFromDensity"}
               /\ passLog[i].blend = BlendAll(FALSE)
               /\ \A t \in passLog[i].targets : passLog[i].after[t] = OutputOf(i)
        /\ passLog[i].pass \in {"computeTransmittance", "computeSingleScattering",
                                "computeMultipleScatteringFromDensity"} =>
               /\ Cardinality(passLog[i].targets) = 1
               /\ passLog[i].targets \subseteq ReplacedTextures
        /\ (passLog[i].pass = "computeSingleScattering"
                /\ DeclaredAt(passLog[i].scatterer) > 1) =>
               /\ i > 3
               /\ passLog[i - 3].pass = "computeSingleScattering"
               /\ passLog[i - 3].after[TEX_DELTA_SCATTERING] = OutputOf(i - 3)
               /\ passLog[i - 2].pass = "computeScatteringDensityOrder2_scatterer"
               /\ passLog[i - 2].blend = BlendAll(TRUE)
               /\ passLog[i].after[TEX_DELTA_SCATTERING] = OutputOf(i)
               /\ OutputOf(i) # OutputOf(i - 3)

\* The single scattering of the second scatterer has just been drawn, the
\* density pass of the first having drawn with blending on.
C29_Witness ==
    /\ Len(scatterers) = 2
    /\ Len(passLog) > 3
    /\ passLog[Len(passLog)].pass = "computeSingleScattering"
    /\ passLog[Len(passLog)].scatterer = scatterers[2]
    /\ passLog[Len(passLog) - 2].blend = BlendAll(TRUE)
    /\ textures[TEX_DELTA_SCATTERING] = OutputOf(Len(passLog))

\* ---------------------------------------------------------------------------
\* C30: the stages of a program

\* How often the last program got a shader of the named file.
TimesAdded(name) ==
    Cardinality({i \in DOMAIN lastCompile.program : lastCompile.program[i].name = name})

\* The main fragment shader each pass asks compileShaderProgram for.
MainShaderOf(pass) ==
    CASE pass = "computeTransmittance" -> "compute-transmittance.frag"
      [] pass = "computeDirectGroundIrradiance" -> "compute-direct-irradiance.frag"
      [] pass = "computeSingleScattering" -> "compute-single-scattering.frag"
      [] pass \in DensityPasses -> COMPUTE_SCATTERING_DENSITY_FILENAME
      [] pass \in {"computeIndirectIrradianceOrder1", "computeIndirectIrradiance"} ->
             COMPUTE_INDIRECT_IRRADIANCE_FILENAME
      [] pass = "computeMultipleScatteringFromDensity" -> "compute-multiple-scattering.frag"
      [] pass = "accumulateMultipleScattering" -> "copy-scattering-texture.frag"

Passes2D ==
    {"computeTransmittance", "computeDirectGroundIrradiance",
     "computeIndirectIrradianceOrder1", "computeIndirectIrradiance"}

\* C30: every program compileShaderProgram links holds the main fragment
\* shader and the vertex stage, once each, and the geometry stage exactly
\* when useGeomShader is true; the programs of the passes that render into
\* a 3-D texture (single scattering, the density passes, multiple
\* scattering, accumulation) are linked with the geometry stage, those of
\* the passes that render into 2-D textures (transmittance, direct and
\* indirect irradiance) without it.
C30_StagesOfEveryProgram ==
    /\ lastCompile # NoCompile =>
           /\ TimesAdded(lastCompile.main) = 1
           /\ TimesAdded("shader.vert") = 1
           /\ TimesAdded("shader.geom") = (IF lastCompile.useGeomShader THEN 1 ELSE 0)
           /\ \A i \in DOMAIN lastCompile.program :
                  lastCompile.program[i].shader = lastCompile.stored[lastCompile.program[i].name]
    /\ passLog # <<>> =>
           LET p == passLog[Len(passLog)]
           IN /\ lastCompile.main = MainShaderOf(p.pass)
              /\ p.pass \in Passes3D \cup Passes2D
              /\ p.pass \in Passes3D =>
                     /\ TimesAdded("shader.geom") = 1
                     /\ p.targets # {} /\ p.targets \subseteq Textures3D
              /\ p.pass \in Passes2D =>
                     /\ TimesAdded("shader.geom") = 0
                     /\ p.targets # {} /\ p.targets \cap Textures3D = {}

\* The indirect-irradiance pass of order 3 has linked its program without
\* the geometry stage, right after the density pass had linked one with it.
C30_Witness ==
    /\ Len(passLog) > 1
    /\ passLog[Len(passLog)].pass = "computeIndirectIrradiance"
    /\ passLog[Len(passLog) - 1].pass = "computeScatteringDensity"
    /\ ~lastCompile.useGeomShader
    /\ TimesAdded("shader.geom") = 0
    /\ TimesAdded("shader.vert") = 1
    /\ "shader.geom" \in DOMAIN allShaders

\* ------------------------------------------------------------------ C31
\* The virtual source files holding content generated for a wavelength set
\* other than k (cross-section literals of another set).
SourcesOfOtherSet(table, k) ==
    {n \in DOMAIN table : table[n].set # -1 /\ table[n].set # k}

\* C31: when a pass of set k has just compiled its program, no virtual
\* source file of the table the compile read holds wavelength-dependent
\* content generated for another set, and no shader of the program was
\* compiled from such a source.
C31_SourcesOfCurrentSet ==
    passLog # <<>> =>
        LET p == passLog[Len(passLog)]
        IN /\ SourcesOfOtherSet(lastCompile.table, p.set) = {}
           /\ \A i \in DOMAIN lastCompile.program :
                  lastCompile.program[i].shader.set \in {-1, p.set}

\* ------------------------------------------------------------------ C32
\* A run with the debug dumps off, which a second run is compared with.
InitTwoRuns ==
    /\ allWavelengthsSize \in 1..MaxSets
    /\ scatterers \in ScattererLists
    /\ scatteringOrdersToCompute \in 2..MaxOrders
    /\ saveResultAsRadiance \in BOOLEAN
    /\ dbg = {}
    /\ scatTexDepth = MaxLayers
    /\ AtMainLoop
    /\ InitState

\* What a run that has ended leaves to compare: its passes, the programs it
\* compiled and the files it wrote.
RunRecord == [passLog |-> passLog, files |-> files, compiles |-> lastCompile.log]

\* The program has returned 0 and is started again on the same
\* configuration with some of the debug-dump switches on.
Rerun ==
    /\ pc = "done"
    /\ exitStatus = 0
    /\ otherRun = <<>>
    /\ otherRun' = <<RunRecord>>
    /\ dbg' \in DbgConfigs \ {{}}
    /\ UNCHANGED <<allWavelengthsSize, scatterers, scatteringOrdersToCompute,
                   saveResultAsRadiance, scatTexDepth, shaderFiles, internalShaders>>
    /\ texIndex' = 0
    /\ scatteringOrder' = 0
    /\ scattererIndex' = 0
    /\ textures' = [t \in TextureIds |-> SetToBag({Uninitialized})]
    /\ blend' = BlendAll(FALSE)
    /\ blendFunc' = BLEND_ONE_ZERO
    /\ boundFbo' = FBO_DEFAULT
    /\ fboAttach' = [f \in FboIds |-> [i \in 0..1 |-> NO_TEXTURE]]
    /\ drawBuffers' = [f \in FboIds |-> 1]
    /\ files' = <<>>
    /\ passLog' = <<>>
    /\ allShaders' = <<>>
    /\ virtualSourceFiles' = <<>>
    /\ lastCompile' = NoCompile
    /\ dirty' = {}
    /\ glCalls' = <<>>
    /\ exitStatus' = RUNNING
    /\ raised' = NotRaised
    /\ scanStack' = <<>>
    /\ scanResult' = <<>>
    /\ srcStream' = <<>>
    /\ lineNumber' = 0
    /\ listed' = <<>>
    /\ headerNumber' = 0
    /\ newSrc' = <<>>
    /\ FreshRun'
    /\ pc' = "main_for"
    /\ UNCHANGED <<glContext, initCalled, scanInput, shaderSource, includeInput>>

NextTwoRuns ==
    \/ Next
    \/ Rerun

SpecTwoRuns == InitTwoRuns /\ [][NextTwoRuns]_vars

\* The files that are not debug dumps: transmittance and final multiple
\* scattering.
NonDebugFiles(fs) ==
    SelectSeq(fs, LAMBDA f : f.name \in {"transmittance-wlset"} \cup FinalFileNames)

IsPrefix(a, b) ==
    /\ Len(a) <= Len(b)
    /\ \A i \in DOMAIN a : a[i] = b[i]

\* C32: a run with any of the debug-dump switches on, at every point and at
\* its end, has gone through the same passes with the same texture contents,
\* has compiled the same programs from the same shaders and has written the
\* same transmittance and final multiple-scattering files with the same
\* content as the run on the same configuration with all switches off: what
\* it has done is a prefix of what that run did, and all of it at the end.
C32_DebugSwitchesChangeDebugFilesOnly ==
    otherRun # <<>> =>
        LET r == otherRun[1]
        IN /\ dbg # {}
           /\ r.files = NonDebugFiles(r.files)
           /\ IsPrefix(passLog, r.passLog)
           /\ IsPrefix(lastCompile.log, r.compiles)
           /\ IsPrefix(NonDebugFiles(files), r.files)
           /\ pc = "done" =>
                  /\ passLog = r.passLog
                  /\ lastCompile.log = r.compiles
                  /\ NonDebugFiles(files) = r.files

\* The second run, with all five switches on, has ended after three orders
\* in two sets: it wrote debug files of each kind, which the first run did
\* not, and the same other files.
C32_Witness ==
    /\ otherRun # <<>>
    /\ pc = "done"
    /\ dbg = DbgFlags
    /\ allWavelengthsSize = 2
    /\ scatteringOrdersToCompute = 3
    /\ {"irradiance-delta-order", "irradiance-accum-order", "scattering-density",
        "scattering-density2-from-ground-wlset", "delta-scattering-order",
        "multiple-scattering-to-order"}
           \subseteq {files[i].name : i \in DOMAIN files}
    /\ Len(files) > Len(otherRun[1].files)
    /\ Len(otherRun[1].files) >= 3

\* ------------------------------------------------------------------ C33
RECURSIVE LinesOf(_)
\* The lines of a text.
LinesOf(text) ==
    IF text = <<>> THEN <<>> ELSE <<readLine(text)>> \o LinesOf(AfterLine(text))

\* A well-formed include line, and the file it names.
WellFormedInclude(line) ==
    /\ Len(line) >= 5
    /\ line[1] = "#include" /\ line[2] = " " /\ line[3] = QUOTE /\ line[Len(line)] = QUOTE
    /\ \A i \in 4..(Len(line) - 1) : line[i] # QUOTE

NamedBy(line) == SubSeq(line, 4, Len(line) - 1)

\* The header an include of the name stands for: the generated strings for
\* the two generated headers, the file of the shader directory otherwise.
ExpectedHeader(input, name) ==
    CASE name = <<"const", ".h.glsl">> -> input.constantsHeader
      [] name = <<"densities", ".h.glsl">> -> input.densitiesHeader
      [] OTHER -> ShaderDirectory[name]

\* What line L of the source becomes in the output.
ExpectedPart(input, lines, L) ==
    IF ~StartsWithInclude(lines[L]) THEN lines[L] \o <<NL>>
    ELSE LET h == 1 + Cardinality({i \in 1..(L - 1) : StartsWithInclude(lines[i])})
         IN <<"#", "line", " ", "1", " ", ToString(h), " ", "//", " ">>
                \o NamedBy(lines[L]) \o <<NL>>
            \o ExpectedHeader(input, NamedBy(lines[L]))
            \o <<"#", "line", " ", ToString(L + 1), " ", "0", " ", "//", " ",
                 input.filename, NL>>

RECURSIVE ExpectedUpTo(_, _, _)
ExpectedUpTo(input, lines, n) ==
    IF n = 0 THEN <<>>
    ELSE ExpectedUpTo(input, lines, n - 1) \o ExpectedPart(input, lines, n)

\* The include lines that stop the run: malformed, or naming a file without
\* the header suffix.
RejectedInclude(line) ==
    /\ StartsWithInclude(line)
    /\ \/ ~WellFormedInclude(line)
       \/ NamedBy(line)[Len(NamedBy(line))] # ".h.glsl"

\* The output for the lines read so far, and how the function has ended.
OutputFollowsSource ==
    pc \in {"include_readLine", "include_returned", "exited"} =>
        \A lines \in {LinesOf(includeInput.src)} : \A read \in {lineNumber - 1} :
           /\ read <= Len(lines)
           /\ headerNumber = 1 + Cardinality({i \in 1..read : StartsWithInclude(lines[i])})
           /\ newSrc = ExpectedUpTo(includeInput, lines, read)
           /\ \A i \in 1..read : ~RejectedInclude(lines[i])
           /\ pc = "include_returned" =>
                  /\ read = Len(lines)
                  /\ raised = NotRaised
           /\ pc = "exited" =>
                  /\ raised.kind = "MustQuit"
                  /\ exitStatus = 1
                  /\ read < Len(lines)
                  /\ StartsWithInclude(lines[read + 1])
                  /\ RejectedInclude(lines[read + 1])
                        \/ NamedBy(lines[read + 1]) \notin DOMAIN ShaderDirectory

\* The step taken at a rejected include line throws.
RejectedIncludeAborts ==
    (/\ pc = "include_readLine"
     /\ srcStream # <<>>
     /\ RejectedInclude(LinesOf(includeInput.src)[lineNumber]))
        => /\ pc' = "exited"
           /\ raised'.kind = "MustQuit"
           /\ newSrc' = newSrc

\* C33: while withHeadersIncluded runs and when it has returned, its output
\* is, for the lines read so far and in their order, each line that is not an
\* include directive unchanged and, for each include line at line L,
\* "#line 1 h" with h the number of this include among the includes of the
\* source, the header (the generated string for const.h.glsl and
\* densities.h.glsl, the file of the shader directory otherwise) and
\* "#line L+1 0"; it returns only after the last line; at a malformed include
\* line or one naming a file without the suffix .h.glsl the next step throws
\* MustQuit and the run ends with status 1.
C33_IncludesReplacedInPlace ==
    /\ OutputFollowsSource
    /\ [][OutputFollowsSource' /\ RejectedIncludeAborts]_vars

\* A source of two lines, includes of const.h.glsl and of a.h.glsl, has been
\* assembled: the headers are numbered 1 and 2, the constants header is the
\* string of the second generation and not the file of that name.
C33_Witness ==
    /\ pc = "include_returned"
    /\ includeInput.src = IncludeLine(CONSTANTS_HEADER_FILENAME) \o <<NL>>
                             \o IncludeLine(HeaderA) \o <<NL>>
    /\ includeInput.constantsHeader = GeneratedHeader("const", 2)
    /\ headerNumber = 3
    /\ newSrc = <<"#", "line", " ", "1", " ", "1", " ", "//", " ", "const", ".h.glsl", NL,
                  "const", "generated", "2", NL,
                  "#", "line", " ", "2", " ", "0", " ", "//", " ", "main.frag", NL,
                  "#", "line", " ", "1", " ", "2", " ", "//", " ", "a", ".h.glsl", NL,
                  "#include", " ", QUOTE, "b", ".h.glsl", QUOTE, NL, "in_a",
                  "#", "line", " ", "3", " ", "0", " ", "//", " ", "main.frag", NL>>

\* ------------------------------------------------------------------ C34
\* The places of the output where the last line of a.h.glsl stands.
PlacesOfHeaderA == {i \in DOMAIN newSrc : newSrc[i] = "in_a"}

\* The stream only ever holds the rest of the source, and a header's text
\* is in the output as it is in the file: the include line of a.h.glsl
\* stands before its last line, and nothing of b.h.glsl is there.
HeadersAreNotScanned ==
    pc \in {"include_readLine", "include_returned", "exited"} =>
        /\ \E k \in 0..Len(includeInput.src) :
               srcStream = SubSeq(includeInput.src, k + 1, Len(includeInput.src))
        /\ \A i \in DOMAIN newSrc : newSrc[i] # "in_b"
        /\ \A i \in PlacesOfHeaderA :
               /\ i > 7
               /\ SubSeq(newSrc, i - 7, i - 1) = IncludeLine(HeaderB) \o <<NL>>
        /\ Cardinality(PlacesOfHeaderA)
               = Cardinality({L \in 1..(lineNumber - 1) :
                                 LinesOf(includeInput.src)[L] = IncludeLine(HeaderA)})

\* A step of the loop reads one line of the source, or ends the function.
EachStepReadsOneLine ==
    pc = "include_readLine" =>
        \/ pc' \in {"include_returned", "exited"}
        \/ /\ srcStream # <<>>
           /\ srcStream' = AfterLine(srcStream)
           /\ Len(srcStream') < Len(srcStream)
           /\ lineNumber' = lineNumber + 1

IncludeHasEnded == pc \in {"include_returned", "exited"}

\* C34: withHeadersIncluded expands one level only and terminates: the text
\* of a header is appended as it is and never read as source, so an include
\* line inside a header is in the output unexpanded (also when two headers
\* include each other), every step of the loop takes one line off the source,
\* and the function eventually returns or throws.
C34_OneLevelAndTerminates ==
    /\ HeadersAreNotScanned
    /\ [][HeadersAreNotScanned' /\ EachStepReadsOneLine]_vars
    /\ <>IncludeHasEnded

\* a.h.glsl, which includes b.h.glsl, which includes a.h.glsl, has been
\* included twice and the function has returned.
C34_Witness ==
    /\ pc = "include_returned"
    /\ includeInput.src = IncludeLine(HeaderA) \o <<NL>> \o IncludeLine(HeaderA)
    /\ Cardinality(PlacesOfHeaderA) = 2
    /\ Cardinality({i \in DOMAIN newSrc : newSrc[i] = "#include"}) = 2
    /\ headerNumber = 3

\* ------------------------------------------------------------------ C35
\* The companions of the headers a file includes; the constants header has none.
CompanionsOf(input, f) ==
    {input.includes[f][i] : i \in DOMAIN input.includes[f]} \ {CONSTANTS_HEADER}

RECURSIVE LinkClosure(_, _)
\* The least set that holds S and, with every member that is not internal,
\* the companions of the headers it includes.
LinkClosure(input, S) ==
    LET T == S \cup UNION {CompanionsOf(input, n) : n \in S \ input.internalShaders}
    IN IF T = S THEN S ELSE LinkClosure(input, T)

\* No chain of nested scans over the three files comes back to a file: the
\* only includes that close a cycle are those of a file's own header; and
\* every file whose scan is started is in the shader directory.
OnlySelfIncludes(input) ==
    /\ input \in SmallGraphs
    /\ ScannedAtDepth(input, Cardinality(GraphFiles)) = {}
    /\ ScannedFilesOpened(input)

\* The scanned files that include their own header.
SelfIncluding(input, names) ==
    {f \in {0} \cup (names \ input.internalShaders) : f \in CompanionsOf(input, f)}

\* C35: a nested scan is only ever started for the companion of a header
\* that the scanning file includes, never for the constants header, an
\* internal shader or the scanning file itself; a scan that returns returns
\* the companions of the headers of the main file and, transitively, of every
\* companion that is not internal, and nothing else; and when the only cycles
\* are files including their own header, the scan returns, with each such
\* file in the set.
C35_LinkSetIsTransitiveCompanions ==
    /\ \A d \in 2..Len(scanStack) :
          /\ scanStack[d].filename \in CompanionsOf(scanInput, scanStack[d - 1].filename)
          /\ scanStack[d].filename \notin scanInput.internalShaders
          /\ scanStack[d].filename # scanStack[d - 1].filename
    /\ (pc = "scanned" /\ scanResult.ok) =>
          /\ CompanionsOf(scanInput, 0) \subseteq scanResult.names
          /\ \A n \in scanResult.names \ scanInput.internalShaders :
                CompanionsOf(scanInput, n) \subseteq scanResult.names
          /\ scanResult.names = LinkClosure(scanInput, CompanionsOf(scanInput, 0))
    /\ (pc = "scanned" /\ OnlySelfIncludes(scanInput)) =>
          /\ scanResult.ok
          /\ SelfIncluding(scanInput, scanResult.names) \subseteq scanResult.names

\* The main file includes its own header and that of file 2, an internal
\* shader, which includes the header of file 1: the scan has returned the
\* main file and file 2, and not file 1.
C35_Witness ==
    /\ pc = "scanned"
    /\ scanInput.includes = [f \in GraphFiles |->
                                IF f = 0 THEN <<CONSTANTS_HEADER, 0, 2>>
                                ELSE IF f = 1 THEN <<>> ELSE <<1>>]
    /\ scanInput.internalShaders = {2}
    /\ scanInput.missing = {}
    /\ scanResult.ok
    /\ scanResult.names = {0, 2}

====
